---- MODULE Spec2Model ----
(***************************************************************************)
(* Model of the `run` command of moltest (src/moltest/cli.py): expansion   *)
(* of the selected scenario descriptors into execution records, the        *)
(* ThreadPoolExecutor-based coordinator loop, the worker function          *)
(* _run_scenario, the early-termination policies, the in-memory cache      *)
(* update and the final exit code.                                         *)
(*                                                                         *)
(* Strings that the code builds by concatenation (execution ids) are       *)
(* modelled as sequences of string tokens: <<base>> is the bare scenario   *)
(* id, <<base, "[", param_id, "]">> is f"{base}[{param_id}]".              *)
(***************************************************************************)
EXTENDS Integers, Sequences, FiniteSets, TLC

(***************************************************************************)
(* Bounds of the model.                                                    *)
(***************************************************************************)
MaxExpansions == 3     \* (descriptor, parameter set) pairs of a run
MaxParallel == 2       \* largest value of --parallel
MaxFailOpt == 2        \* largest value of --maxfail

(***************************************************************************)
(* Input universes.                                                        *)
(***************************************************************************)
ScenarioIdNames == <<"role1:alpha", "role2:beta", "role3:gamma", "role4:delta">>
Tags == {"slow", "flaky"}
SkipTagChoices == {{"slow"}}
XfailTagChoices == {{"flaky"}}
ParallelValues == (0 - 1)..MaxParallel
ExitCodes == {0, 7}

\* A parameter set as written in moltest.params.*: {'id': ..., 'vars': ...}.
\* has_id = FALSE models a parameter set without an 'id' key.
ParamSet(pid) == [has_id |-> TRUE, id |-> pid]
\* The value of s_data.get('parameters'): has_parameters = FALSE is a
\* descriptor without the key (None), otherwise the list under the key.
NoParametersKey == [has_parameters |-> FALSE, parameters |-> <<>>]
EmptyParameters == [has_parameters |-> TRUE, parameters |-> <<>>]
TwoParameters ==
    [has_parameters |-> TRUE, parameters |-> <<ParamSet("set1"), ParamSet("set2")>>]

\* The descriptor shapes the model draws from: an untagged scenario without a
\* 'parameters' key (as the tests' descriptors), a scenario tagged for both
\* skip and xfail with the empty parameter list discovery returns, and an
\* xfail-tagged scenario with two declared parameter sets.
DescriptorShapes ==
    { [tags |-> {}, params |-> NoParametersKey],
      [tags |-> {"slow", "flaky"}, params |-> EmptyParameters],
      [tags |-> {"flaky"}, params |-> TwoParameters] }

Descriptor(k, shape) ==
    [id |-> ScenarioIdNames[k], tags |-> shape.tags,
     has_parameters |-> shape.params.has_parameters,
     parameters |-> shape.params.parameters]

\* Descriptor lists of length n, sorted by id as discover_scenarios returns them.
DescriptorLists(n) ==
    { [k \in 1..n |-> Descriptor(k, sh[k])] : sh \in [1..n -> DescriptorShapes] }

VARIABLES
    parallel, fail_fast, maxfail,      \* CLI options
    skip_tags_set, xfail_tags_set,     \* CLI options, as sets
    all_discovered_scenarios,          \* what discover_scenarios returns
    scenario, rerun_failed, id_expr,   \* CLI options of the selection
    previous_run,                      \* what the run before this one left
    scenarios_to_run,                  \* descriptors left after selection
    execution_records,                 \* records built by the expansion loop
    scenario_results_list,             \* the result aggregator
    cache_data,                        \* cache_data["scenarios"]: id -> status
    futures,                           \* in-flight map, as the set of record indices
    record_iter,                       \* index the iterator yields next
    failure_count, early_stop,
    snapshot,                          \* futures as_completed has still to yield
    fstate, fresult,                   \* per record index: future state and result
    proc,                              \* per record index: what the subprocess did
    spawned,                           \* record indices whose Popen call returned
    events,                            \* observable calls, in order
    pc,
    exit_code,                         \* the code the process exits with
    after_run_arg,                     \* <<list>> once after_run(list) was called
    _loaded_plugins,                   \* per plugin: what its hook does
    hook_idx, hook_calls, hook_warnings, hook_pc,   \* one call_hooks call
    cache_file, temp_file,             \* the cache file and its ".tmp" sibling
    doc,                               \* a cache document in memory (cache.py)
    cache_pc, cache_ret,               \* position in, and result of, a cache.py call
    clock,                             \* the wall clock
    last_call, doc_before,             \* the last cache.py call and the document before it
    file_before_save, saved_doc, upserted, trail    \* history of the cache calls

options == <<parallel, fail_fast, maxfail, skip_tags_set, xfail_tags_set>>
selection == <<all_discovered_scenarios, scenario, rerun_failed, id_expr,
               previous_run>>
exitvars == <<exit_code, after_run_arg>>
hookvars == <<_loaded_plugins, hook_idx, hook_calls, hook_warnings, hook_pc>>
diskvars == <<cache_file, temp_file>>
cachevars == <<doc, cache_pc, cache_ret, clock, last_call, doc_before,
               file_before_save, saved_doc, upserted, trail>>
coordvars == <<execution_records, scenario_results_list, cache_data, futures,
               record_iter, failure_count, early_stop, snapshot, fstate, fresult,
               proc, spawned>>
\* What the coordinator loop and the workers leave alone.
inputs == <<options, selection, scenarios_to_run, exitvars, hookvars, diskvars,
            cachevars>>
vars == <<options, selection, scenarios_to_run, coordvars, events, pc, exitvars,
          hookvars, diskvars, cachevars>>

Min(a, b) == IF a < b THEN a ELSE b
Max(a, b) == IF a > b THEN a ELSE b

(***************************************************************************)
(* cache.py                                                                *)
(***************************************************************************)
CACHE_VERSION == "1.0.0"
PersistedStatuses == {"passed", "failed"}
EmptyScenarios == [k \in {} |-> ""]

\* update_scenario_status(cache_data, scenario_key, status), on the
\* "scenarios" mapping.
update_scenario_status(scenarios, scenario_key, status) ==
    IF status \notin PersistedStatuses
    THEN scenarios
    ELSE [k \in (DOMAIN scenarios) \cup {scenario_key} |->
            IF k = scenario_key THEN status ELSE scenarios[k]]

\* The cache document, a dict with the keys moltest_version, last_run and
\* scenarios. scenarios_kind is the type of the value under "scenarios":
\* "dict", "list", or "missing" when the key is absent; `scenarios` is the
\* mapping when the kind is "dict".
Document(version, last_run, kind, scenarios) ==
    [moltest_version |-> version, last_run |-> last_run,
     scenarios_kind |-> kind, scenarios |-> scenarios]

\* datetime.now(timezone.utc).isoformat() at clock value t.
Timestamps == <<"t0", "t1", "t2", "t3", "t4">>
isoformat(t) == Timestamps[t + 1]

get_empty_cache_structure(now) ==
    Document(CACHE_VERSION, isoformat(now), "dict", EmptyScenarios)

\* An update that rebuilds the mapping from the new entry alone.
update_document_DropsOthers(cache, scenario_key, status) ==
    IF status \notin PersistedStatuses
    THEN cache
    ELSE [cache EXCEPT
            !.scenarios_kind = "dict",
            !.scenarios = update_scenario_status(EmptyScenarios, scenario_key, status)]

\* update_scenario_status on the whole document: a rejected status returns
\* before anything is touched; otherwise a missing or non-dict "scenarios"
\* is replaced by {} before the entry is set.
update_document(cache, scenario_key, status) ==
    IF status \notin PersistedStatuses
    THEN cache
    ELSE [cache EXCEPT
            !.scenarios_kind = "dict",
            !.scenarios = update_scenario_status(
                              IF cache.scenarios_kind = "dict"
                              THEN cache.scenarios ELSE EmptyScenarios,
                              scenario_key, status)]

\* get_scenario_status: cache_data.get("scenarios", {}).get(scenario_key);
\* "None" stands for None.
get_scenario_status(scenarios, scenario_key) ==
    IF scenario_key \in DOMAIN scenarios THEN scenarios[scenario_key] ELSE "None"

\* get_failed_scenarios, as the set of the keys of the returned list.
get_failed_scenarios(scenarios) ==
    {k \in DOMAIN scenarios : scenarios[k] = "failed"}

(***************************************************************************)
(* The cache file as json.dump writes it and json.load reads it: a         *)
(* sequence of tokens. A string token carries its text as a sequence of    *)
(* pieces, as the execution ids: <<"passed">>, <<base, "[", id, "]">>.     *)
(***************************************************************************)
Tok(t, v) == [t |-> t, v |-> v]
LBrace == Tok("{", <<>>)
RBrace == Tok("}", <<>>)
LBracket == Tok("[", <<>>)
RBracket == Tok("]", <<>>)
Colon == Tok(":", <<>>)
Comma == Tok(",", <<>>)
StrTok(s) == Tok("str", s)

\* The keys of a dict in some fixed order.
KeysInOrder(S) ==
    CHOOSE s \in [1..Cardinality(S) -> S] : \A x \in S : \E i \in DOMAIN s : s[i] = x

RECURSIVE DumpMembers(_, _)
DumpMembers(keys, scenarios) ==
    IF Len(keys) = 0 THEN <<>>
    ELSE <<StrTok(Head(keys)), Colon, StrTok(<<scenarios[Head(keys)]>>)>>
         \o (IF Len(keys) = 1 THEN <<>> ELSE <<Comma>>)
         \o DumpMembers(Tail(keys), scenarios)

\* A dump that writes no entry of the scenarios mapping.
json_dump_EmptyScenarios(cache) ==
    <<LBrace, StrTok(<<"moltest_version">>), Colon, StrTok(<<cache.moltest_version>>),
      Comma, StrTok(<<"last_run">>), Colon, StrTok(<<cache.last_run>>),
      Comma, StrTok(<<"scenarios">>), Colon, LBrace, RBrace, RBrace>>

\* json.dump(cache_data, f, indent=4)
json_dump(cache) ==
    <<LBrace, StrTok(<<"moltest_version">>), Colon, StrTok(<<cache.moltest_version>>),
      Comma, StrTok(<<"last_run">>), Colon, StrTok(<<cache.last_run>>)>>
    \o (IF cache.scenarios_kind = "dict"
        THEN <<Comma, StrTok(<<"scenarios">>), Colon, LBrace>>
             \o DumpMembers(KeysInOrder(DOMAIN cache.scenarios), cache.scenarios)
             \o <<RBrace>>
        ELSE IF cache.scenarios_kind = "list"
        THEN <<Comma, StrTok(<<"scenarios">>), Colon, LBracket, RBracket>>
        ELSE <<>>)
    \o <<RBrace>>

\* Python values json.load can return: a str, a list, a dict or None (the
\* result of dict.get on a missing key).
PyNone == [kind |-> "none", str |-> <<>>, items |-> <<>>]
PyStr(s) == [kind |-> "str", str |-> s, items |-> <<>>]
PyList == [kind |-> "list", str |-> <<>>, items |-> <<>>]
PyDict(items) == [kind |-> "dict", str |-> <<>>, items |-> items]

\* A str made of one piece, as a model string.
Text(v) == IF v.kind = "str" /\ Len(v.str) = 1 THEN v.str[1] ELSE "None"
EmptyItems == [k \in {} |-> PyNone]

\* json.JSONDecodeError
ParseFail == [ok |-> FALSE, val |-> PyNone, rest |-> <<>>]

RECURSIVE ParseValue(_)
RECURSIVE ParseMembers(_, _)
\* One JSON value at the head of the tokens.
ParseValue(toks) ==
    IF Len(toks) = 0 THEN ParseFail
    ELSE IF Head(toks).t = "str"
    THEN [ok |-> TRUE, val |-> PyStr(Head(toks).v), rest |-> Tail(toks)]
    ELSE IF Head(toks).t = "["
    THEN IF Len(toks) >= 2 /\ toks[2].t = "]"
         THEN [ok |-> TRUE, val |-> PyList, rest |-> SubSeq(toks, 3, Len(toks))]
         ELSE ParseFail
    ELSE IF Head(toks).t = "{"
    THEN IF Len(toks) >= 2 /\ toks[2].t = "}"
         THEN [ok |-> TRUE, val |-> PyDict(EmptyItems), rest |-> SubSeq(toks, 3, Len(toks))]
         ELSE ParseMembers(Tail(toks), EmptyItems)
    ELSE ParseFail

\* The members of an object after its opening brace; a repeated key keeps
\* the last value.
ParseMembers(toks, acc) ==
    IF Len(toks) < 3 \/ toks[1].t # "str" \/ toks[2].t # ":" THEN ParseFail
    ELSE LET v == ParseValue(SubSeq(toks, 3, Len(toks)))
         IN IF ~v.ok \/ Len(v.rest) = 0 THEN ParseFail
            ELSE LET acc1 == [k \in (DOMAIN acc) \cup {toks[1].v} |->
                                IF k = toks[1].v THEN v.val ELSE acc[k]]
                 IN IF Head(v.rest).t = "}"
                    THEN [ok |-> TRUE, val |-> PyDict(acc1), rest |-> Tail(v.rest)]
                    ELSE IF Head(v.rest).t = ","
                    THEN ParseMembers(Tail(v.rest), acc1)
                    ELSE ParseFail

\* json.load(f): the text must be one value and nothing else.
json_load(toks) ==
    LET r == ParseValue(toks)
    IN IF r.ok /\ Len(r.rest) = 0 THEN r ELSE ParseFail

\* data.get(key)
DictGet(data, key) == IF key \in DOMAIN data.items THEN data.items[key] ELSE PyNone

\* What open(cache_file_path, 'r', encoding='utf-8') and reading meet:
\* no file (FileNotFoundError), a path that cannot be opened or read
\* (another OSError), bytes that are not UTF-8 (UnicodeDecodeError, a
\* ValueError), or text.
AbsentFile == [kind |-> "absent", text |-> <<>>]
UnreadableFile == [kind |-> "unreadable", text |-> <<>>]
UndecodableFile == [kind |-> "undecodable", text |-> <<>>]
TextFile(toks) == [kind |-> "text", text |-> toks]

\* The dict load_cache returns when the file passes its validation.
DocumentOf(data) ==
    LET sc == DictGet(data, <<"scenarios">>)
        lr == DictGet(data, <<"last_run">>)
    IN Document(Text(DictGet(data, <<"moltest_version">>)), Text(lr), "dict",
                [k \in DOMAIN sc.items |-> Text(sc.items[k])])

\* The three tests of the validation in load_cache.
IsValidCache(data) ==
    /\ data.kind = "dict"
    /\ DictGet(data, <<"moltest_version">>).kind = "str"
    /\ DictGet(data, <<"moltest_version">>).str = <<CACHE_VERSION>>
    /\ DictGet(data, <<"scenarios">>).kind = "dict"

\* load_cache(cache_dir_path): `raised` names the exception that leaves the
\* function ("" when it returns), `data` is the returned document.
load_cache(file, now) ==
    LET empty == [raised |-> "", data |-> get_empty_cache_structure(now)]
    IN IF file.kind = "absent" THEN empty
       ELSE IF file.kind = "unreadable" THEN empty
       ELSE IF file.kind = "undecodable"
       THEN [raised |-> "UnicodeDecodeError", data |-> get_empty_cache_structure(now)]
       ELSE LET r == json_load(file.text)
            IN IF ~r.ok THEN empty
               ELSE IF ~IsValidCache(r.val) THEN empty
               ELSE [raised |-> "", data |-> DocumentOf(r.val)]

\* save_cache, lines 77-78: the timestamp and the version are refreshed in
\* the caller's dict before anything is written.
save_begin(cache, now) ==
    [cache EXCEPT !.last_run = isoformat(now), !.moltest_version = CACHE_VERSION]

\* The two paths save_cache touches: the cache file and cache file + ".tmp".
Disk(file, tmp) == [file |-> file, tmp |-> tmp]

\* What a write that fails half way leaves in the file.
PartialText(toks) == SubSeq(toks, 1, Len(toks) \div 2)

\* open(temp_file_path, 'w'): creates or truncates the temp file, or raises.
OpenTemp(disk, ok) ==
    IF ok THEN [disk EXCEPT !.tmp = TextFile(<<>>)] ELSE disk

\* json.dump(cache_data, f, indent=4) and the close of the file, or a write
\* that raises after part of the text.
DumpTemp(disk, cache, ok) ==
    [disk EXCEPT !.tmp = TextFile(IF ok THEN json_dump(cache)
                                  ELSE PartialText(json_dump(cache)))]

\* os.replace(temp_file_path, cache_file_path): atomic, or raises and
\* changes nothing.
ReplaceTemp(disk, ok) ==
    IF ok THEN Disk(disk.tmp, AbsentFile) ELSE disk

\* A handler that leaves the temp file behind.
CleanupTemp_Never(disk, ok) == disk

\* The except branch: os.path.exists(temp_file_path), then os.remove, whose
\* own OSError is swallowed.
CleanupTemp(disk, ok) ==
    IF disk.tmp.kind # "absent" /\ ok THEN [disk EXCEPT !.tmp = AbsentFile] ELSE disk

\* The step of save_cache at which an OSError is raised, if any.
SaveFaults == {"none", "open", "dump", "replace"}

\* save_cache(cache_data, cache_dir_path) run to its return, for a document
\* whose timestamp is already refreshed.
save_cache(disk, cache, fault, cleanup_ok) ==
    IF fault = "open"
    THEN [disk |-> CleanupTemp(OpenTemp(disk, FALSE), cleanup_ok), ret |-> FALSE]
    ELSE IF fault = "dump"
    THEN [disk |-> CleanupTemp(DumpTemp(OpenTemp(disk, TRUE), cache, FALSE), cleanup_ok),
          ret |-> FALSE]
    ELSE IF fault = "replace"
    THEN [disk |-> CleanupTemp(ReplaceTemp(DumpTemp(OpenTemp(disk, TRUE), cache, TRUE),
                                           FALSE), cleanup_ok),
          ret |-> FALSE]
    ELSE [disk |-> ReplaceTemp(DumpTemp(OpenTemp(disk, TRUE), cache, TRUE), TRUE),
          ret |-> TRUE]

(***************************************************************************)
(* compile_id_expression (cli.py): the -k expression. The expression is    *)
(* the sequence of the tokens token_re finds in it: "(", ")", "and", "or", *)
(* "not" and bare words. A scenario id and a bare word are sequences of    *)
(* pieces of text, so that `word in scenario_id` is a test on sequences.   *)
(***************************************************************************)
MaxExprLen == 5        \* tokens of a -k expression

\* The text of the scenario ids of ScenarioIdNames, piece by piece.
ScenarioIdPieces ==
    << <<"role", "1", ":", "alpha">>, <<"role", "2", ":", "beta">>,
       <<"role", "3", ":", "gamma">>, <<"role", "4", ":", "delta">> >>

\* tok in scenario_id
Contains(word, scenario_id) ==
    LET text == ScenarioIdPieces[CHOOSE k \in 1..Len(ScenarioIdNames) :
                                    ScenarioIdNames[k] = scenario_id]
    IN \E i \in 1..(Len(text) + 1 - Len(word)) :
          SubSeq(text, i, i + Len(word) - 1) = word

\* The loop over tokens: an operator or a parenthesis is kept, a bare word
\* becomes the parenthesised test (repr(tok) in scenario_id), an "atom".
Parts(tokens) ==
    [k \in 1..Len(tokens) |->
        IF tokens[k].t \in {"and", "or", "not", "(", ")"} THEN tokens[k]
        ELSE Tok("atom", tokens[k].v)]

\* The outcome of parsing and evaluating a prefix of python_expr: ok is
\* FALSE for a SyntaxError; val is "truthy" or "falsy" for the value and
\* "raises" for an exception of the evaluation; rest is what follows.
Parsed(ok, val, rest) == [ok |-> ok, val |-> val, rest |-> rest]

\* The binary operators with `and` binding more loosely than `or`.
PythonPrecedence_AndLowest == <<"and", "or", "not">>

\* The boolean operators of Python from the loosest to the tightest.
PythonPrecedence == <<"or", "and", "not">>

RECURSIVE PyExpr(_, _, _)
RECURSIVE PyTrailers(_, _, _)
\* eval(python_expr, ...) on a prefix of the parts, at a level of Python's
\* grammar: 1 and 2 the binary operators, 3 `not`, 4 a primary (an atom
\* followed by call parentheses), 5 an atom. Evaluation short-circuits: the
\* right operand of `or` is not evaluated after a truthy left operand, nor
\* that of `and` after a falsy one.
PyExpr(level, parts, scenario_id) ==
    IF level \in {1, 2}
    THEN LET l == PyExpr(level + 1, parts, scenario_id)
         IN IF ~l.ok THEN l
            ELSE IF l.rest # <<>> /\ Head(l.rest).t = PythonPrecedence[level]
            THEN LET r == PyExpr(level, Tail(l.rest), scenario_id)
                     decided == IF PythonPrecedence[level] = "or"
                                THEN "truthy" ELSE "falsy"
                 IN IF ~r.ok THEN r
                    ELSE Parsed(TRUE,
                                IF l.val \in {"raises", decided} THEN l.val ELSE r.val,
                                r.rest)
            ELSE l
    ELSE IF level = 3
    THEN IF parts # <<>> /\ Head(parts).t = PythonPrecedence[3]
         THEN LET r == PyExpr(3, Tail(parts), scenario_id)
              IN IF ~r.ok THEN r
                 ELSE Parsed(TRUE,
                             IF r.val = "raises" THEN "raises"
                             ELSE IF r.val = "truthy" THEN "falsy" ELSE "truthy",
                             r.rest)
         ELSE PyExpr(4, parts, scenario_id)
    ELSE IF level = 4
    THEN LET a == PyExpr(5, parts, scenario_id)
         IN IF ~a.ok THEN a ELSE PyTrailers(a.val, a.rest, scenario_id)
    ELSE IF parts = <<>> THEN Parsed(FALSE, "", <<>>)
    ELSE IF Head(parts).t = "atom"
    THEN Parsed(TRUE,
                IF Contains(Head(parts).v, scenario_id) THEN "truthy" ELSE "falsy",
                Tail(parts))
    ELSE IF Head(parts).t = "("
    THEN IF Len(parts) >= 2 /\ parts[2].t = ")"
         THEN Parsed(TRUE, "falsy", SubSeq(parts, 3, Len(parts)))
         ELSE LET e == PyExpr(1, Tail(parts), scenario_id)
              IN IF e.ok /\ e.rest # <<>> /\ Head(e.rest).t = ")"
                 THEN Parsed(TRUE, e.val, Tail(e.rest))
                 ELSE Parsed(FALSE, "", <<>>)
    ELSE Parsed(FALSE, "", <<>>)

\* What follows an atom: each parenthesis that opens, that of a bare word's
\* test included, is a call of the value before it, with no argument or
\* one; a bool or a tuple is not callable, so evaluating the call raises
\* TypeError.
PyTrailers(val, parts, scenario_id) ==
    IF parts # <<>> /\ Head(parts).t = "atom"
    THEN PyTrailers("raises", Tail(parts), scenario_id)
    ELSE IF parts # <<>> /\ Head(parts).t = "("
    THEN IF Len(parts) >= 2 /\ parts[2].t = ")"
         THEN PyTrailers("raises", SubSeq(parts, 3, Len(parts)), scenario_id)
         ELSE LET arg == PyExpr(1, Tail(parts), scenario_id)
              IN IF arg.ok /\ arg.rest # <<>> /\ Head(arg.rest).t = ")"
                 THEN PyTrailers("raises", Tail(arg.rest), scenario_id)
                 ELSE Parsed(FALSE, "", <<>>)
    ELSE Parsed(TRUE, val, parts)

\* matcher(scenario_id): bool(eval(python_expr, ...)), False on any
\* Exception, SyntaxError included.
matcher(python_expr, scenario_id) ==
    LET r == PyExpr(1, python_expr, scenario_id)
    IN r.ok /\ r.rest = <<>> /\ r.val = "truthy"

\* compile_id_expression(expression)(scenario_id)
compile_id_expression(expression, scenario_id) ==
    IF ~expression.given THEN TRUE
    ELSE matcher(Parts(expression.lexemes), scenario_id)

(***************************************************************************)
(* Expansion of the selected descriptors (cli.py, the loop that builds     *)
(* execution_records).                                                     *)
(***************************************************************************)
DefaultParamSets == <<[has_id |-> TRUE, id |-> "default"]>>
IndexStrings == <<"0", "1", "2", "3">>

\* param_sets = s_data.get('parameters') or [{'id': 'default', 'vars': {}}]
param_sets_of(s_data) ==
    IF s_data.has_parameters /\ s_data.parameters # <<>>
    THEN s_data.parameters
    ELSE DefaultParamSets

\* param_id = param.get('id', str(idx)); idx counts from 0.
param_id_of(param, idx) == IF param.has_id THEN param.id ELSE IndexStrings[idx + 1]

\* full_id: the bare id only when the 'parameters' key is missing (None).
full_id_of(s_data, param, idx) ==
    IF ~s_data.has_parameters
       /\ param_id_of(param, idx) = "default"
       /\ Len(param_sets_of(s_data)) = 1
    THEN <<s_data.id>>
    ELSE <<s_data.id, "[", param_id_of(param, idx), "]">>

\* The (descriptor, parameter set) pairs in the order the two nested loops
\* visit them; each carries the execution id and the descriptor's tags.
ExpansionsOfScenario(s_data) ==
    [j \in 1..Len(param_sets_of(s_data)) |->
        [id |-> full_id_of(s_data, param_sets_of(s_data)[j], j - 1),
         tags |-> s_data.tags]]

RECURSIVE Expansions(_)
Expansions(descs) ==
    IF descs = <<>> THEN <<>>
    ELSE ExpansionsOfScenario(Head(descs)) \o Expansions(Tail(descs))

\* tags & skip_tags_set
IsTagSkipped(exp, skip) == (exp.tags \cap skip) # {}

\* The dict appended to execution_records.
MakeRecord(exp, xfail) == [id |-> exp.id, is_xfail |-> (exp.tags \cap xfail) # {}]

\* The dict appended to scenario_results_list for a record that is not run.
SkippedResult(id) ==
    [id |-> id, status |-> "skipped", duration |-> "None", return_code |-> 0]

Event(kind, id, status) == [kind |-> kind, id |-> id, status |-> status]

\* An expansion with an xfail tag is dispatched even when a skip tag matches.
RecordsOf_XfailWins(exps, skip, xfail) ==
    SelectSeq([k \in 1..Len(exps) |-> MakeRecord(exps[k], xfail)],
              LAMBDA r : r.is_xfail \/ \E k \in 1..Len(exps) :
                             exps[k].id = r.id /\ ~IsTagSkipped(exps[k], skip))

RECURSIVE RecordsOf(_, _, _)
RecordsOf(exps, skip, xfail) ==
    IF exps = <<>> THEN <<>>
    ELSE (IF IsTagSkipped(Head(exps), skip) THEN <<>>
          ELSE <<MakeRecord(Head(exps), xfail)>>)
         \o RecordsOf(Tail(exps), skip, xfail)

RECURSIVE TagSkipResults(_, _)
TagSkipResults(exps, skip) ==
    IF exps = <<>> THEN <<>>
    ELSE (IF IsTagSkipped(Head(exps), skip) THEN <<SkippedResult(Head(exps).id)>>
          ELSE <<>>)
         \o TagSkipResults(Tail(exps), skip)

\* call_hooks("after_scenario", id, status) for each result of a sequence.
RECURSIVE AfterEvents(_)
AfterEvents(results) ==
    IF results = <<>> THEN <<>>
    ELSE <<Event("after_scenario", Head(results).id, Head(results).status)>>
         \o AfterEvents(Tail(results))

\* update_scenario_status applied for each result of a sequence, in order.
RECURSIVE UpdateAll(_, _)
UpdateAll(scenarios, results) ==
    IF results = <<>> THEN scenarios
    ELSE UpdateAll(update_scenario_status(scenarios, Head(results).id, Head(results).status),
                   Tail(results))

(***************************************************************************)
(* _run_scenario: the result a worker returns, from what the subprocess    *)
(* did. outcome.kind is "exit" (Popen ran, exit code outcome.code),        *)
(* "notfound" (Popen raised FileNotFoundError) or "error" (any other       *)
(* exception inside the try block).                                        *)
(***************************************************************************)
ExitOutcome(c) == [kind |-> "exit", code |-> c]
NotFoundOutcome == [kind |-> "notfound", code |-> 0 - 1]
ErrorOutcome == [kind |-> "error", code |-> 0 - 1]
NoOutcome == [kind |-> "none", code |-> 0 - 1]

\* Mutation of XfailAdjust: an expected failure keeps the raw exit code.
XfailAdjust_KeepsRawCode(scenario_status, return_code, is_xfail) ==
    IF is_xfail
    THEN IF scenario_status = "failed"
         THEN [status |-> "xfailed", return_code |-> return_code]
         ELSE [status |-> "xpassed", return_code |-> return_code]
    ELSE [status |-> scenario_status, return_code |-> return_code]

\* status and return_code after the xfail adjustment.
XfailAdjust(scenario_status, return_code, is_xfail) ==
    IF is_xfail
    THEN IF scenario_status = "failed"
         THEN [status |-> "xfailed", return_code |-> 0]
         ELSE [status |-> "xpassed", return_code |-> return_code]
    ELSE [status |-> scenario_status, return_code |-> return_code]

\* Handlers that leave scenario_status at its initial value.
ExceptionResult_StatusNotSet(record, outcome) ==
    [id |-> record.id, status |-> "unknown", duration |-> "None",
     return_code |-> 0 - 1, error_message |-> (outcome.kind = "notfound")]

\* The dict returned through `except FileNotFoundError` or `except
\* Exception`: duration and return_code keep their initial values None and
\* -1, only the first handler sets error_message.
ExceptionResult(record, outcome) ==
    [id |-> record.id, status |-> "failed", duration |-> "None",
     return_code |-> 0 - 1, error_message |-> (outcome.kind = "notfound")]

_run_scenario(record, outcome) ==
    IF outcome.kind = "exit"
    THEN LET adj == XfailAdjust(IF outcome.code = 0 THEN "passed" ELSE "failed",
                                outcome.code, record.is_xfail)
         IN [id |-> record.id, status |-> adj.status, duration |-> "measured",
             return_code |-> adj.return_code, error_message |-> FALSE]
    ELSE ExceptionResult(record, outcome)

NoResult == [id |-> <<>>, status |-> "unknown", duration |-> "None",
             return_code |-> 0 - 1, error_message |-> FALSE]

\* The dict the coordinator appends for a completed future.
CompletedResult(result_data) ==
    [id |-> result_data.id, status |-> result_data.status,
     duration |-> result_data.duration, return_code |-> result_data.return_code]

(***************************************************************************)
(* Coordinator helpers (cli.py, run).                                      *)
(***************************************************************************)
\* ThreadPoolExecutor(max_workers=max(1, parallel))
max_workers(p) == Max(1, p)

\* Mutation of InitialSubmissions: every record is submitted up front.
InitialSubmissions_AllRecords(p, n) == n

\* range(min(parallel, len(execution_records))): submissions before the loop.
InitialSubmissions(p, n) == Max(0, Min(p, n))

\* Mutation of NextRecord: the iterator walks the list from its end.
NextRecord_FromTheEnd(iter, n) == IF iter <= n THEN n + 1 - iter ELSE 0

\* next(record_iter, None): the index yielded, 0 for None.
NextRecord(iter, n) == IF iter <= n THEN iter ELSE 0

\* result_data['status'].lower() == 'failed' or result_data['return_code'] != 0
CountsAsFailure(result_data) ==
    result_data.status = "failed" \/ result_data.return_code # 0

\* Mutation of EarlyTermination: the threshold has to be exceeded.
EarlyTermination_Exceeds(ff, mf, count) == ff \/ (mf > 0 /\ count > mf)

\* fail_fast or (maxfail > 0 and failure_count >= maxfail)
EarlyTermination(ff, mf, count) == ff \/ (mf > 0 /\ count >= mf)

\* The keys of the futures dict in insertion order. Futures are inserted in
\* record order, so this is ascending index order.
RECURSIVE InOrder(_)
InOrder(S) ==
    IF S = {} THEN <<>>
    ELSE LET m == CHOOSE x \in S : \A y \in S : x <= y
         IN <<m>> \o InOrder(S \ {m})

\* The records the early-termination loop walks: futures.items().
CancelTargets(inflight) == InOrder(inflight)

\* Future.cancel(): only a future no worker has picked up is cancelled.
CancelState(st) == IF st = "queued" THEN "cancelled" ELSE st

\* call_hooks("before_scenario", id) followed by executor.submit(...).
DispatchEvents(id) ==
    <<Event("before_scenario", id, ""), Event("submit", id, "")>>

\* Mutation of CancelEvents: the hook is not called for a cancelled future.
CancelEvents_NoHook(targets, records) ==
    [k \in 1..Len(targets) |-> Event("cancel", records[targets[k]].id, "")]

\* Per cancelled future: pfut.cancel(), the skipped result, the hook.
RECURSIVE CancelEvents(_, _)
CancelEvents(targets, records) ==
    IF targets = <<>> THEN <<>>
    ELSE <<Event("cancel", records[Head(targets)].id, ""),
           Event("after_scenario", records[Head(targets)].id, "skipped")>>
         \o CancelEvents(Tail(targets), records)

RECURSIVE CancelResults(_, _)
CancelResults(targets, records) ==
    IF targets = <<>> THEN <<>>
    ELSE <<SkippedResult(records[Head(targets)].id)>>
         \o CancelResults(Tail(targets), records)

\* Workers that are inside _run_scenario.
Busy == {i \in DOMAIN fstate : fstate[i] \in {"running", "spawned"}}

(***************************************************************************)
(* Initial states.                                                         *)
(***************************************************************************)
\* scenario: 'all' in any case, or a comma-separated list of ids.
AllScenarios == [all |-> TRUE, requested_ids |-> {}]
Requested(ids) == [all |-> FALSE, requested_ids |-> ids]

\* id_expr: None or '' (the filter is not applied), or the text as the
\* lexemes the whitespace separates.
NoIdExpr == [given |-> FALSE, lexemes |-> <<>>]
IdExpr(lexemes) == [given |-> TRUE, lexemes |-> lexemes]

\* No run of `moltest run` came before this one.
NoPreviousRun == [ran |-> FALSE, results |-> <<>>, cache_file |-> AbsentFile]

NotExited == 0 - 1

RunOptions ==
    /\ parallel \in ParallelValues
    /\ fail_fast \in BOOLEAN
    /\ maxfail \in 0..MaxFailOpt
    /\ skip_tags_set \in SkipTagChoices
    /\ xfail_tags_set \in XfailTagChoices

\* Nothing expanded, submitted or recorded yet.
CoordinatorIdle ==
    /\ execution_records = <<>>
    /\ scenario_results_list = <<>>
    /\ futures = {}
    /\ record_iter = 1
    /\ failure_count = 0
    /\ early_stop = FALSE
    /\ snapshot = {}
    /\ fstate = <<>>
    /\ fresult = <<>>
    /\ proc = <<>>
    /\ spawned = {}
    /\ exit_code = NotExited
    /\ after_run_arg = <<>>

\* No call_hooks call is being followed plugin by plugin.
HooksIdle ==
    /\ _loaded_plugins = <<>>
    /\ hook_idx = 0
    /\ hook_calls = <<>>
    /\ hook_warnings = <<>>
    /\ hook_pc = "idle"

Call(op, key, status) == [op |-> op, key |-> key, status |-> status]
NoCall == Call("", <<>>, "")

\* No cache.py call is being followed step by step.
CacheIdle ==
    /\ doc = get_empty_cache_structure(0)
    /\ cache_pc = "idle"
    /\ cache_ret = ""
    /\ clock = 0
    /\ last_call = NoCall
    /\ doc_before = get_empty_cache_structure(0)
    /\ file_before_save = AbsentFile
    /\ saved_doc = get_empty_cache_structure(0)
    /\ upserted = EmptyScenarios
    /\ trail = ""

\* The coordinator's specification starts where the expansion loop starts:
\* before_run was called, load_cache found no cache file, and the selection
\* kept every discovered scenario.
Init ==
    /\ RunOptions
    /\ \E n \in 1..MaxExpansions : scenarios_to_run \in DescriptorLists(n)
    /\ Len(Expansions(scenarios_to_run)) <= MaxExpansions
    /\ all_discovered_scenarios = scenarios_to_run
    /\ scenario = AllScenarios
    /\ rerun_failed = FALSE
    /\ id_expr = NoIdExpr
    /\ previous_run = NoPreviousRun
    /\ CoordinatorIdle
    /\ cache_data = EmptyScenarios
    /\ cache_file = AbsentFile
    /\ temp_file = AbsentFile
    /\ events = <<Event("before_run", <<>>, ""), Event("load_cache", <<>>, "")>>
    /\ pc = "expand"
    /\ HooksIdle
    /\ CacheIdle

(***************************************************************************)
(* Coordinator steps.                                                      *)
(***************************************************************************)
\* The loop over scenarios_to_run that builds execution_records and records
\* the tag-skipped expansions.
Expand ==
    /\ pc = "expand"
    /\ LET exps == Expansions(scenarios_to_run)
           recs == RecordsOf(exps, skip_tags_set, xfail_tags_set)
           skipped == TagSkipResults(exps, skip_tags_set)
       IN /\ execution_records' = recs
          /\ scenario_results_list' = scenario_results_list \o skipped
          /\ cache_data' = UpdateAll(cache_data, skipped)
          /\ events' = events \o AfterEvents(skipped)
          /\ fstate' = [i \in 1..Len(recs) |-> "none"]
          /\ fresult' = [i \in 1..Len(recs) |-> NoResult]
          /\ proc' = [i \in 1..Len(recs) |-> NoOutcome]
    /\ pc' = "fill"
    /\ UNCHANGED <<inputs, futures, record_iter, failure_count, early_stop, snapshot,
                   spawned>>

\* One iteration of the submission loop that precedes `while futures`.
InitialSubmit ==
    /\ pc = "fill"
    /\ Cardinality(futures) < InitialSubmissions(parallel, Len(execution_records))
    /\ LET r == NextRecord(record_iter, Len(execution_records))
       IN /\ r # 0
          /\ events' = events \o DispatchEvents(execution_records[r].id)
          /\ futures' = futures \cup {r}
          /\ fstate' = [fstate EXCEPT ![r] = "queued"]
          /\ record_iter' = record_iter + 1
    /\ UNCHANGED <<inputs, execution_records, scenario_results_list, cache_data,
                   failure_count, early_stop, snapshot, fresult, proc, spawned, pc>>

\* The submission loop is over.
InitialDone ==
    /\ pc = "fill"
    /\ Cardinality(futures) >= InitialSubmissions(parallel, Len(execution_records))
    /\ pc' = "while"
    /\ UNCHANGED <<inputs, execution_records, scenario_results_list, cache_data,
                   futures, record_iter, failure_count, early_stop, snapshot, fstate,
                   fresult, proc, spawned, events>>

\* `while futures:` and the call as_completed(list(futures)).
WhileFutures ==
    /\ pc = "while"
    /\ IF futures # {}
       THEN /\ snapshot' = futures
            /\ pc' = "for"
       ELSE /\ snapshot' = {}
            /\ pc' = "shutdown"
    /\ UNCHANGED <<inputs, execution_records, scenario_results_list, cache_data,
                   futures, record_iter, failure_count, early_stop, fstate, fresult,
                   proc, spawned, events>>

\* Mutation of HandleCompletion: on early termination the in-flight futures
\* are cancelled but kept, and the loop goes on to the next completion.
HandleCompletion_KeepsGoing(i) ==
    /\ pc = "for"
    /\ i \in snapshot
    /\ fstate[i] = "finished"
    /\ LET result_data == fresult[i]
           rest == futures \ {i}
           count == IF CountsAsFailure(result_data)
                    THEN failure_count + 1 ELSE failure_count
           done_events == <<Event("after_scenario", result_data.id, result_data.status)>>
           results1 == Append(scenario_results_list, CompletedResult(result_data))
           cache1 == update_scenario_status(cache_data, result_data.id, result_data.status)
       IN /\ failure_count' = count
          /\ IF EarlyTermination(fail_fast, maxfail, count)
             THEN LET targets == CancelTargets(rest)
                      cancelled == CancelResults(targets, execution_records)
                  IN /\ fstate' = [j \in DOMAIN fstate |->
                                     IF j \in rest THEN CancelState(fstate[j])
                                     ELSE fstate[j]]
                     /\ scenario_results_list' = results1 \o cancelled
                     /\ cache_data' = UpdateAll(cache1, cancelled)
                     /\ events' = events \o done_events
                                    \o CancelEvents(targets, execution_records)
                     /\ early_stop' = TRUE
                     /\ futures' = rest
                     /\ snapshot' = snapshot \ {i}
                     /\ UNCHANGED <<pc, record_iter>>
             ELSE LET r == NextRecord(record_iter, Len(execution_records))
                  IN /\ scenario_results_list' = results1
                     /\ cache_data' = cache1
                     /\ snapshot' = snapshot \ {i}
                     /\ IF r # 0
                        THEN /\ events' = events \o done_events
                                           \o DispatchEvents(execution_records[r].id)
                             /\ futures' = rest \cup {r}
                             /\ fstate' = [fstate EXCEPT ![r] = "queued"]
                             /\ record_iter' = record_iter + 1
                        ELSE /\ events' = events \o done_events
                             /\ futures' = rest
                             /\ UNCHANGED <<fstate, record_iter>>
                     /\ UNCHANGED <<early_stop, pc>>
    /\ UNCHANGED <<inputs, execution_records, fresult, proc, spawned>>

\* The body of `for fut in as_completed(...)` for the completed future i.
HandleCompletion(i) ==
    /\ pc = "for"
    /\ i \in snapshot
    /\ fstate[i] = "finished"
    /\ LET result_data == fresult[i]
           rest == futures \ {i}
           count == IF CountsAsFailure(result_data)
                    THEN failure_count + 1 ELSE failure_count
           done_events == <<Event("after_scenario", result_data.id, result_data.status)>>
           results1 == Append(scenario_results_list, CompletedResult(result_data))
           cache1 == update_scenario_status(cache_data, result_data.id, result_data.status)
       IN /\ failure_count' = count
          /\ IF EarlyTermination(fail_fast, maxfail, count)
             THEN LET targets == CancelTargets(rest)
                      cancelled == CancelResults(targets, execution_records)
                  IN /\ fstate' = [j \in DOMAIN fstate |->
                                     IF j \in rest THEN CancelState(fstate[j])
                                     ELSE fstate[j]]
                     /\ scenario_results_list' = results1 \o cancelled
                     /\ cache_data' = UpdateAll(cache1, cancelled)
                     /\ events' = events \o done_events
                                    \o CancelEvents(targets, execution_records)
                     /\ early_stop' = TRUE
                     /\ futures' = {}
                     /\ snapshot' = {}
                     /\ pc' = "shutdown"
                     /\ UNCHANGED record_iter
             ELSE LET r == NextRecord(record_iter, Len(execution_records))
                  IN /\ scenario_results_list' = results1
                     /\ cache_data' = cache1
                     /\ snapshot' = snapshot \ {i}
                     /\ IF r # 0
                        THEN /\ events' = events \o done_events
                                           \o DispatchEvents(execution_records[r].id)
                             /\ futures' = rest \cup {r}
                             /\ fstate' = [fstate EXCEPT ![r] = "queued"]
                             /\ record_iter' = record_iter + 1
                        ELSE /\ events' = events \o done_events
                             /\ futures' = rest
                             /\ UNCHANGED <<fstate, record_iter>>
                     /\ UNCHANGED <<early_stop, pc>>
    /\ UNCHANGED <<inputs, execution_records, fresult, proc, spawned>>

\* as_completed has yielded every future of its snapshot: back to `while`.
ForExhausted ==
    /\ pc = "for"
    /\ snapshot = {}
    /\ pc' = "while"
    /\ UNCHANGED <<inputs, execution_records, scenario_results_list, cache_data,
                   futures, record_iter, failure_count, early_stop, snapshot, fstate,
                   fresult, proc, spawned, events>>

\* Leaving the `with ThreadPoolExecutor(...)` block: shutdown(wait=True)
\* returns once no worker is running a future.
Shutdown ==
    /\ pc = "shutdown"
    /\ \A i \in DOMAIN fstate : fstate[i] \notin {"queued", "running", "spawned"}
    /\ pc' = "save"
    /\ UNCHANGED <<inputs, execution_records, scenario_results_list, cache_data,
                   futures, record_iter, failure_count, early_stop, snapshot, fstate,
                   fresult, proc, spawned, events>>

\* The document save_cache writes for the run: the scenarios mapping under
\* the refreshed timestamp and version.
CacheDocument(scenarios, now) ==
    save_begin(Document(CACHE_VERSION, "None", "dict", scenarios), now)

\* The faults of the disk a run meets when it saves: none, or a write that
\* fails half way and whose temp file is removed.
RunSaveFaults == {"none", "dump"}

\* A call save_cache(cache_data, str(_PROJECT_ROOT)) of the run.
CallSaveCache ==
    \E fault \in RunSaveFaults :
        LET r == save_cache(Disk(cache_file, temp_file),
                            CacheDocument(cache_data, clock), fault, TRUE)
        IN /\ cache_file' = r.disk.file
           /\ temp_file' = r.disk.tmp

\* The `finally:` block: save_cache(cache_data, ...).
SaveCache ==
    /\ pc = "save"
    /\ CallSaveCache
    /\ events' = Append(events, Event("save_cache", <<>>, ""))
    /\ pc' = "done"
    /\ UNCHANGED <<options, selection, scenarios_to_run, exitvars, hookvars,
                   cachevars, coordvars>>

(***************************************************************************)
(* Worker threads of the pool.                                             *)
(***************************************************************************)
\* A free worker takes a queued future and enters _run_scenario.
WorkerStart(i) ==
    /\ i \in DOMAIN fstate
    /\ fstate[i] = "queued"
    /\ Cardinality(Busy) < max_workers(parallel)
    /\ fstate' = [fstate EXCEPT ![i] = "running"]
    /\ UNCHANGED <<inputs, execution_records, scenario_results_list, cache_data,
                   futures, record_iter, failure_count, early_stop, snapshot,
                   fresult, proc, spawned, events, pc>>

\* subprocess.Popen(...) returns: the subprocess is running.
WorkerSpawn(i) ==
    /\ i \in DOMAIN fstate
    /\ fstate[i] = "running"
    /\ fstate' = [fstate EXCEPT ![i] = "spawned"]
    /\ spawned' = spawned \cup {i}
    /\ UNCHANGED <<inputs, execution_records, scenario_results_list, cache_data,
                   futures, record_iter, failure_count, early_stop, snapshot,
                   fresult, proc, events, pc>>

\* Mutation of Finish: the worker appends its result to the result list.
Finish_AppendsResult(i, outcome) ==
    /\ fstate' = [fstate EXCEPT ![i] = "finished"]
    /\ proc' = [proc EXCEPT ![i] = outcome]
    /\ fresult' = [fresult EXCEPT ![i] = _run_scenario(execution_records[i], outcome)]
    /\ scenario_results_list' =
          Append(scenario_results_list,
                 CompletedResult(_run_scenario(execution_records[i], outcome)))
    /\ UNCHANGED <<inputs, execution_records, cache_data, futures, record_iter,
                   failure_count, early_stop, snapshot, spawned, events, pc>>

\* _run_scenario returns with the given outcome.
Finish(i, outcome) ==
    /\ fstate' = [fstate EXCEPT ![i] = "finished"]
    /\ proc' = [proc EXCEPT ![i] = outcome]
    /\ fresult' = [fresult EXCEPT ![i] = _run_scenario(execution_records[i], outcome)]
    /\ UNCHANGED <<inputs, execution_records, scenario_results_list, cache_data,
                   futures, record_iter, failure_count, early_stop, snapshot,
                   spawned, events, pc>>

\* subprocess.Popen(...) raises, FileNotFoundError or another exception:
\* no subprocess exists.
WorkerSpawnFails(i) ==
    /\ i \in DOMAIN fstate
    /\ fstate[i] = "running"
    /\ \E outcome \in {NotFoundOutcome, ErrorOutcome} : Finish(i, outcome)

\* The subprocess exits with some code, or reading its output raises.
WorkerExit(i) ==
    /\ i \in DOMAIN fstate
    /\ fstate[i] = "spawned"
    /\ \E outcome \in {ExitOutcome(c) : c \in ExitCodes} \cup {ErrorOutcome} :
          Finish(i, outcome)


RecordIndices == 1..MaxExpansions

Next ==
    \/ Expand
    \/ InitialSubmit
    \/ InitialDone
    \/ WhileFutures
    \/ \E i \in RecordIndices : HandleCompletion(i)
    \/ ForExhausted
    \/ Shutdown
    \/ SaveCache
    \/ \E i \in RecordIndices : WorkerStart(i)
    \/ \E i \in RecordIndices : WorkerSpawn(i)
    \/ \E i \in RecordIndices : WorkerSpawnFails(i)
    \/ \E i \in RecordIndices : WorkerExit(i)

Spec == Init /\ [][Next]_vars

(***************************************************************************)
(* The coordinator and the workers under fair scheduling: the thread that  *)
(* runs `run` takes its next step whenever it has one, the pool hands a    *)
(* queued future to a free worker, and every subprocess exits.             *)
(***************************************************************************)
\* Every combination of the options over one to MaxExpansions untagged
\* scenarios without parameters.
InitLive ==
    /\ Init
    /\ \A k \in 1..Len(scenarios_to_run) :
          /\ scenarios_to_run[k].tags = {}
          /\ ~scenarios_to_run[k].has_parameters

\* The steps of the thread that runs `run`.
Coordinator ==
    \/ Expand
    \/ InitialSubmit
    \/ InitialDone
    \/ WhileFutures
    \/ \E i \in RecordIndices : HandleCompletion(i)
    \/ ForExhausted
    \/ Shutdown
    \/ SaveCache

\* The steps of the worker that runs record i.
Worker(i) ==
    \/ WorkerStart(i)
    \/ WorkerSpawn(i)
    \/ WorkerSpawnFails(i)
    \/ WorkerExit(i)

Fairness ==
    /\ WF_vars(Coordinator)
    /\ \A i \in RecordIndices : WF_vars(Worker(i))

SpecLive == InitLive /\ [][Next]_vars /\ Fairness

(***************************************************************************)
(* The whole `run` command: before_run, the cache load, the selection, the *)
(* coordinator above, the reports and the exit.                            *)
(***************************************************************************)
MaxRunExpansions == 2  \* (descriptor, parameter set) pairs of a whole run

\* --scenario as typed: all; one id, which is discovered or not; or three
\* ids of which one is never discovered.
ScenarioChoices ==
    { AllScenarios, Requested({"role2:beta"}),
      Requested({"role1:alpha", "role2:beta", "role9:none"}) }

\* The cache file a run finds: none, one that cannot be opened for reading,
\* one that is not UTF-8 text, or the one an earlier run left with a failed
\* entry.
RunCacheFiles ==
    { AbsentFile, UnreadableFile, UndecodableFile,
      TextFile(json_dump(Document(CACHE_VERSION, "t0", "dict",
                                  <<"role1:alpha">> :> "failed"))) }

\* With 'all', the discovered list from its last element to its first.
TargetScenarios_AllReversed(discovered, opt) ==
    IF opt.all THEN [k \in 1..Len(discovered) |-> discovered[Len(discovered) + 1 - k]]
    ELSE SelectSeq(discovered, LAMBDA s : s.id \in opt.requested_ids)

\* With explicit ids, every discovered descriptor as soon as one is requested.
TargetScenarios_KeepsAll(discovered, opt) ==
    IF opt.all THEN discovered
    ELSE IF \E k \in 1..Len(discovered) : discovered[k].id \in opt.requested_ids
    THEN discovered ELSE <<>>

\* target_scenarios from the `scenario` option.
TargetScenarios(discovered, opt) ==
    IF opt.all THEN discovered
    ELSE SelectSeq(discovered, LAMBDA s : s.id \in opt.requested_ids)

\* `if id_expr:` and the filter of target_scenarios by the matcher.
IdExprFilter(target, expression) ==
    SelectSeq(target, LAMBDA s : compile_id_expression(expression, s.id))

\* scenarios_to_run: the --rerun-failed filter compares the descriptor's id
\* with the keys of the failed cache entries.
RerunFilter(target, rerun, scenarios) ==
    IF rerun
    THEN SelectSeq(target, LAMBDA s : <<s.id>> \in get_failed_scenarios(scenarios))
    ELSE target

\* final_exit_code
final_exit_code(results) ==
    IF \E k \in 1..Len(results) :
          results[k].status = "failed" \/ results[k].return_code # 0
    THEN 1 ELSE 0

CodeNames == <<"0", "1", "2", "3">>

\* ctx.exit(code) inside the outer try block. click's Context.exit raises
\* click.exceptions.Exit, a RuntimeError, which `except Exception` of the
\* same try block catches; the tests replace Context.exit by a function
\* that raises SystemExit, which it does not catch.
CtxExitInTry(evs, code) ==
    /\ events' = Append(evs, Event("ctx.exit", <<>>, CodeNames[code + 1]))
    /\ \/ pc' = "exited" /\ exit_code' = code
       \/ pc' = "except" /\ exit_code' = exit_code

\* A run that never calls after_run.
AfterRunCall_Skipped(evs) == evs

\* call_hooks("after_run", ...)
AfterRunCall(evs) == Append(evs, Event("after_run", <<>>, ""))

\* load_plugins() and call_hooks("before_run", ctx)
BeforeRun ==
    /\ pc = "start"
    /\ events' = Append(events, Event("before_run", <<>>, ""))
    /\ pc' = "load"
    /\ UNCHANGED <<options, selection, scenarios_to_run, coordvars, exitvars,
                   hookvars, diskvars, cachevars>>

\* cache_data = load_cache(...) under `except (IOError, OSError)`, whose
\* handler calls ctx.exit(5) outside the outer try block; an exception of
\* another kind leaves `run` as a traceback, exit code 1.
LoadCache ==
    /\ pc = "load"
    /\ LET r == load_cache(cache_file, clock)
       IN IF r.raised = ""
          THEN /\ cache_data' = r.data.scenarios
               /\ events' = Append(events, Event("load_cache", <<>>, ""))
               /\ pc' = "discover"
               /\ UNCHANGED exit_code
          ELSE /\ pc' = "exited"
               /\ exit_code' = IF r.raised \in {"IOError", "OSError"} THEN 5 ELSE 1
               /\ UNCHANGED <<cache_data, events>>
    /\ UNCHANGED <<options, selection, scenarios_to_run, execution_records,
                   scenario_results_list, futures, record_iter, failure_count,
                   early_stop, snapshot, fstate, fresult, proc, spawned,
                   after_run_arg, hookvars, diskvars, cachevars>>

\* Discovery and selection, up to the start of the expansion loop.
SelectScenarios ==
    /\ pc = "discover"
    /\ LET requested == TargetScenarios(all_discovered_scenarios, scenario)
           target == IdExprFilter(requested, id_expr)
           to_run == RerunFilter(target, rerun_failed, cache_data)
       IN IF all_discovered_scenarios = <<>> \/ requested = <<>>
          THEN /\ CtxExitInTry(events, 2)
               /\ UNCHANGED <<scenarios_to_run, after_run_arg, diskvars>>
          ELSE IF to_run = <<>>
          THEN /\ CallSaveCache
               /\ after_run_arg' = << <<>> >>
               /\ CtxExitInTry(AfterRunCall(Append(events,
                                                   Event("save_cache", <<>>, ""))), 0)
               /\ UNCHANGED scenarios_to_run
          ELSE /\ scenarios_to_run' = to_run
               /\ pc' = "expand"
               /\ UNCHANGED <<events, exitvars, diskvars>>
    /\ UNCHANGED <<options, selection, coordvars, hookvars, cachevars>>

\* discover_scenarios raises (a moltest.tags file that cannot be read).
DiscoverRaises ==
    /\ pc = "discover"
    /\ pc' = "except"
    /\ UNCHANGED <<options, selection, scenarios_to_run, coordvars, events,
                   exitvars, hookvars, diskvars, cachevars>>

\* The expansion loop raises (param.get on a parameter entry that is not a
\* mapping): the `finally:` block saves the cache and the exception goes on
\* to the handler of the outer try block.
ExpandRaises ==
    /\ pc = "expand"
    /\ CallSaveCache
    /\ events' = Append(events, Event("save_cache", <<>>, ""))
    /\ pc' = "except"
    /\ UNCHANGED <<options, selection, scenarios_to_run, coordvars, exitvars,
                   hookvars, cachevars>>

\* The summary table and the reports, final_exit_code,
\* call_hooks("after_run", scenario_results_list) and ctx.exit.
ReportAndExit ==
    /\ pc = "done"
    /\ after_run_arg' = <<scenario_results_list>>
    /\ CtxExitInTry(AfterRunCall(events), final_exit_code(scenario_results_list))
    /\ UNCHANGED <<options, selection, scenarios_to_run, coordvars, hookvars,
                   diskvars, cachevars>>

\* Printing the summary raises (standard output is a closed pipe).
ReportRaises ==
    /\ pc = "done"
    /\ pc' = "except"
    /\ UNCHANGED <<options, selection, scenarios_to_run, coordvars, events,
                   exitvars, hookvars, diskvars, cachevars>>

\* `except Exception`: save the cache once more and ctx.exit(3), which
\* leaves `run` whatever it raises.
ExceptHandler ==
    /\ pc = "except"
    /\ CallSaveCache
    /\ events' = events \o <<Event("save_cache", <<>>, ""),
                             Event("ctx.exit", <<>>, "3")>>
    /\ pc' = "exited"
    /\ exit_code' = 3
    /\ UNCHANGED <<options, selection, scenarios_to_run, coordvars, after_run_arg,
                   hookvars, cachevars>>

InitRun ==
    /\ RunOptions
    /\ \E n \in 0..MaxRunExpansions : all_discovered_scenarios \in DescriptorLists(n)
    /\ Len(Expansions(all_discovered_scenarios)) <= MaxRunExpansions
    /\ scenario \in ScenarioChoices
    /\ rerun_failed \in BOOLEAN
    /\ id_expr = NoIdExpr
    /\ previous_run = NoPreviousRun
    /\ scenarios_to_run = <<>>
    /\ CoordinatorIdle
    /\ cache_data = EmptyScenarios
    /\ cache_file \in RunCacheFiles
    /\ temp_file = AbsentFile
    /\ events = <<>>
    /\ pc = "start"
    /\ HooksIdle
    /\ CacheIdle

NextRun ==
    \/ Next
    \/ BeforeRun
    \/ LoadCache
    \/ SelectScenarios
    \/ DiscoverRaises
    \/ ExpandRaises
    \/ ReportAndExit
    \/ ReportRaises
    \/ ExceptHandler

SpecRun == InitRun /\ [][NextRun]_vars

(***************************************************************************)
(* Two runs in a row over the same project: `moltest run`, then            *)
(* `moltest run --rerun-failed`. The second run finds the cache file the   *)
(* first one left.                                                         *)
(***************************************************************************)
\* The first run: every discovered scenario, no cache file yet, one worker
\* and no early termination; --xfail is given or not.
InitRerun ==
    /\ parallel = 1
    /\ fail_fast = FALSE
    /\ maxfail = 0
    /\ skip_tags_set \in SkipTagChoices
    /\ xfail_tags_set \in XfailTagChoices \cup {{}}
    /\ \E n \in 1..MaxRunExpansions : all_discovered_scenarios \in DescriptorLists(n)
    /\ Len(Expansions(all_discovered_scenarios)) <= MaxRunExpansions
    /\ scenario = AllScenarios
    /\ rerun_failed = FALSE
    /\ id_expr = NoIdExpr
    /\ previous_run = NoPreviousRun
    /\ scenarios_to_run = <<>>
    /\ CoordinatorIdle
    /\ cache_data = EmptyScenarios
    /\ cache_file = AbsentFile
    /\ temp_file = AbsentFile
    /\ events = <<>>
    /\ pc = "start"
    /\ HooksIdle
    /\ CacheIdle

\* The process of the first run is gone; `moltest run --rerun-failed` is
\* started in the same project. Every local of `run` is new, the discovered
\* scenarios and the files on disk are what they were.
StartRerun ==
    /\ pc = "exited"
    /\ ~previous_run.ran
    /\ previous_run' = [ran |-> TRUE, results |-> scenario_results_list,
                        cache_file |-> cache_file]
    /\ rerun_failed' = TRUE
    /\ scenarios_to_run' = <<>>
    /\ execution_records' = <<>>
    /\ scenario_results_list' = <<>>
    /\ cache_data' = EmptyScenarios
    /\ futures' = {}
    /\ record_iter' = 1
    /\ failure_count' = 0
    /\ early_stop' = FALSE
    /\ snapshot' = {}
    /\ fstate' = <<>>
    /\ fresult' = <<>>
    /\ proc' = <<>>
    /\ spawned' = {}
    /\ exit_code' = NotExited
    /\ after_run_arg' = <<>>
    /\ events' = <<>>
    /\ pc' = "start"
    /\ UNCHANGED <<options, all_discovered_scenarios, scenario, id_expr, hookvars,
                   diskvars, cachevars>>

NextRerun ==
    \/ NextRun
    \/ StartRerun

SpecRerun == InitRerun /\ [][NextRerun]_vars

(***************************************************************************)
(* The selection on its own: `moltest run -k EXPRESSION` from the          *)
(* discovery to the start of the expansion loop, for every expression of   *)
(* up to MaxExprLen tokens.                                                *)
(***************************************************************************)
\* The -k expressions: the operators, the parentheses and two bare words,
\* "1:" and "beta".
IdExprs ==
    LET Tokens == {Tok(t, <<>>) : t \in {"and", "or", "not", "(", ")"}}
                    \cup {Tok("word", w) : w \in {<<"1", ":">>, <<"beta">>}}
    IN {IdExpr(l) : l \in UNION {[1..n -> Tokens] : n \in 0..MaxExprLen}}

\* before_run was called and no cache file was found; the untagged
\* scenarios role1:alpha, role2:beta, ... were discovered.
InitSelect ==
    /\ parallel = 1
    /\ fail_fast = FALSE
    /\ maxfail = 0
    /\ skip_tags_set = {}
    /\ xfail_tags_set = {}
    /\ all_discovered_scenarios =
          [k \in 1..MaxRunExpansions |->
              Descriptor(k, [tags |-> {}, params |-> NoParametersKey])]
    /\ scenario = AllScenarios
    /\ rerun_failed = FALSE
    /\ id_expr \in IdExprs
    /\ previous_run = NoPreviousRun
    /\ scenarios_to_run = <<>>
    /\ CoordinatorIdle
    /\ cache_data = EmptyScenarios
    /\ cache_file = AbsentFile
    /\ temp_file = AbsentFile
    /\ events = <<Event("before_run", <<>>, ""), Event("load_cache", <<>>, "")>>
    /\ pc = "discover"
    /\ HooksIdle
    /\ CacheIdle

SpecSelect == InitSelect /\ [][SelectScenarios]_vars

(***************************************************************************)
(* call_hooks(hook, *args), plugin by plugin.                              *)
(***************************************************************************)
MaxPlugins == 3   \* loaded plugins

\* What getattr(mod, hook, None) gives for one plugin: nothing callable, a
\* function that returns, or a function that raises an Exception.
PluginBehaviours == {"missing", "returns", "raises"}

\* A loop body without the try block.
call_plugin_hook_Unguarded(behaviour) ==
    [called |-> behaviour # "missing", warned |-> FALSE,
     propagates |-> behaviour = "raises"]

\* The loop body for one plugin: `if callable(func)`, the call inside
\* try/except Exception, and the warning the handler echoes.
call_plugin_hook(behaviour) ==
    [called |-> behaviour # "missing", warned |-> behaviour = "raises",
     propagates |-> FALSE]

\* The run's variables while a single function is followed on its own.
RunIdle ==
    /\ parallel = 1
    /\ fail_fast = FALSE
    /\ maxfail = 0
    /\ skip_tags_set = {}
    /\ xfail_tags_set = {}
    /\ all_discovered_scenarios = <<>>
    /\ scenario = AllScenarios
    /\ rerun_failed = FALSE
    /\ id_expr = NoIdExpr
    /\ previous_run = NoPreviousRun
    /\ scenarios_to_run = <<>>
    /\ CoordinatorIdle
    /\ cache_data = EmptyScenarios
    /\ events = <<>>
    /\ pc = "start"

InitHooks ==
    /\ RunIdle
    /\ cache_file = AbsentFile
    /\ temp_file = AbsentFile
    /\ CacheIdle
    /\ \E n \in 0..MaxPlugins : _loaded_plugins \in [1..n -> PluginBehaviours]
    /\ hook_idx = 0
    /\ hook_calls = <<>>
    /\ hook_warnings = <<>>
    /\ hook_pc = "idle"

\* call_hooks is entered.
CallHooks ==
    /\ hook_pc = "idle"
    /\ hook_pc' = "loop"
    /\ hook_idx' = 1
    /\ UNCHANGED <<options, selection, scenarios_to_run, coordvars, events, pc,
                   exitvars, diskvars, cachevars, _loaded_plugins, hook_calls,
                   hook_warnings>>

\* One iteration of `for mod in _loaded_plugins`.
HookIteration ==
    /\ hook_pc = "loop"
    /\ hook_idx <= Len(_loaded_plugins)
    /\ LET r == call_plugin_hook(_loaded_plugins[hook_idx])
       IN /\ hook_calls' = IF r.called THEN Append(hook_calls, hook_idx)
                           ELSE hook_calls
          /\ hook_warnings' = IF r.warned THEN Append(hook_warnings, hook_idx)
                              ELSE hook_warnings
          /\ IF r.propagates
             THEN hook_pc' = "raised" /\ UNCHANGED hook_idx
             ELSE hook_idx' = hook_idx + 1 /\ UNCHANGED hook_pc
    /\ UNCHANGED <<options, selection, scenarios_to_run, coordvars, events, pc,
                   exitvars, diskvars, cachevars, _loaded_plugins>>

\* The loop is over: call_hooks returns None.
HooksReturn ==
    /\ hook_pc = "loop"
    /\ hook_idx > Len(_loaded_plugins)
    /\ hook_pc' = "returned"
    /\ UNCHANGED <<options, selection, scenarios_to_run, coordvars, events, pc,
                   exitvars, diskvars, cachevars, _loaded_plugins, hook_idx,
                   hook_calls, hook_warnings>>

NextHooks ==
    \/ CallHooks
    \/ HookIteration
    \/ HooksReturn

SpecHooks == InitHooks /\ [][NextHooks]_vars

(***************************************************************************)
(* cache.py on its own: a caller that makes up to MaxClock calls of        *)
(* load_cache, update_scenario_status and save_cache, the last one         *)
(* followed step by step over a disk whose operations can fail.            *)
(***************************************************************************)
MaxClock == 4   \* cache.py calls of one behaviour; the clock ticks once per call

CacheKeys == {<<"role1:alpha">>, <<"role1:alpha", "[", "set1", "]">>}
UpdateStatuses == {"passed", "failed", "skipped"}

\* A document an earlier run saved.
StoredScenarios ==
    (<<"role1:alpha">> :> "failed") @@ (<<"role1:alpha", "[", "set1", "]">> :> "passed")
StoredDocument == Document(CACHE_VERSION, "t0", "dict", StoredScenarios)

\* Cache files load_cache has to reject: text that stops after "{invalid
\* json", a JSON array, a document followed by more text, an object without
\* moltest_version, with another version, with a list under "scenarios" (the
\* file of the test), or without "scenarios".
RejectedTexts ==
    { <<LBrace, StrTok(<<"invalid json">>)>>,
      <<LBracket, RBracket>>,
      json_dump(StoredDocument) \o <<RBrace>>,
      <<LBrace, StrTok(<<"scenarios">>), Colon, LBrace, RBrace, RBrace>>,
      json_dump(Document("0.9.0", "t0", "dict", StoredScenarios)),
      json_dump(Document("bad", "t0", "list", EmptyScenarios)),
      json_dump(Document(CACHE_VERSION, "t0", "list", EmptyScenarios)),
      json_dump(Document(CACHE_VERSION, "t0", "missing", EmptyScenarios)) }

BadCacheFiles ==
    {AbsentFile, UnreadableFile, UndecodableFile} \cup {TextFile(t) : t \in RejectedTexts}

CacheFiles == BadCacheFiles \cup {TextFile(json_dump(StoredDocument))}

\* The documents a caller starts from: the empty structure, or a dict
\* without the "scenarios" key.
InitialDocuments ==
    { get_empty_cache_structure(0),
      Document(CACHE_VERSION, "t0", "missing", EmptyScenarios) }

InitCache ==
    /\ RunIdle
    /\ HooksIdle
    /\ cache_file \in CacheFiles
    /\ temp_file = AbsentFile
    /\ doc \in InitialDocuments
    /\ cache_pc = "idle"
    /\ cache_ret = ""
    /\ clock = 0
    /\ last_call = NoCall
    /\ doc_before = doc
    /\ file_before_save = cache_file
    /\ saved_doc = doc
    /\ upserted = EmptyScenarios
    /\ trail = ""

\* What every step of cache.py leaves alone.
notcache == <<options, selection, scenarios_to_run, coordvars, events, pc,
              exitvars, hookvars>>

\* cache = load_cache(root)
CacheLoad ==
    /\ cache_pc = "idle"
    /\ clock < MaxClock
    /\ clock' = clock + 1
    /\ LET r == load_cache(cache_file, clock)
       IN /\ doc' = IF r.raised = "" THEN r.data ELSE doc
          /\ cache_ret' = IF r.raised = "" THEN "returned" ELSE r.raised
          /\ trail' = IF r.raised # "" THEN "load_raised"
                      ELSE IF trail = "saved" THEN "saved_loaded" ELSE "loaded"
          /\ upserted' = IF r.raised = "" /\ trail # "saved"
                         THEN EmptyScenarios ELSE upserted
    /\ last_call' = Call("load", <<>>, "")
    /\ doc_before' = doc
    /\ UNCHANGED <<notcache, diskvars, cache_pc, file_before_save, saved_doc>>

\* update_scenario_status(cache, scenario_key, status)
CacheUpdate(scenario_key, status) ==
    /\ cache_pc = "idle"
    /\ clock < MaxClock
    /\ clock' = clock + 1
    /\ doc' = update_document(doc, scenario_key, status)
    /\ cache_ret' = "returned"
    /\ trail' = "updated"
    /\ upserted' = IF status \in PersistedStatuses
                   THEN [k \in (DOMAIN upserted) \cup {scenario_key} |->
                           IF k = scenario_key THEN status ELSE upserted[k]]
                   ELSE upserted
    /\ last_call' = Call("update", scenario_key, status)
    /\ doc_before' = doc
    /\ UNCHANGED <<notcache, diskvars, cache_pc, file_before_save, saved_doc>>

\* save_cache is entered: lines 73-78.
SaveBegin ==
    /\ cache_pc = "idle"
    /\ clock < MaxClock
    /\ clock' = clock + 1
    /\ doc' = save_begin(doc, clock)
    /\ cache_pc' = "open"
    /\ cache_ret' = ""
    /\ trail' = "saving"
    /\ last_call' = Call("save", <<>>, "")
    /\ doc_before' = doc
    /\ file_before_save' = cache_file
    /\ UNCHANGED <<notcache, diskvars, saved_doc, upserted>>

\* with open(temp_file_path, 'w', encoding='utf-8') as f
SaveOpen ==
    /\ cache_pc = "open"
    /\ \E ok \in BOOLEAN :
          LET d == OpenTemp(Disk(cache_file, temp_file), ok)
          IN /\ cache_file' = d.file
             /\ temp_file' = d.tmp
             /\ cache_pc' = IF ok THEN "dump" ELSE "except"
    /\ UNCHANGED <<notcache, doc, cache_ret, clock, last_call, doc_before,
                   file_before_save, saved_doc, upserted, trail>>

\* json.dump(cache_data, f, indent=4)
SaveDump ==
    /\ cache_pc = "dump"
    /\ \E ok \in BOOLEAN :
          LET d == DumpTemp(Disk(cache_file, temp_file), doc, ok)
          IN /\ cache_file' = d.file
             /\ temp_file' = d.tmp
             /\ cache_pc' = IF ok THEN "replace" ELSE "except"
    /\ UNCHANGED <<notcache, doc, cache_ret, clock, last_call, doc_before,
                   file_before_save, saved_doc, upserted, trail>>

\* os.replace(temp_file_path, cache_file_path) and `return True`
SaveReplace ==
    /\ cache_pc = "replace"
    /\ \E ok \in BOOLEAN :
          LET d == ReplaceTemp(Disk(cache_file, temp_file), ok)
          IN /\ cache_file' = d.file
             /\ temp_file' = d.tmp
             /\ cache_pc' = IF ok THEN "idle" ELSE "except"
             /\ cache_ret' = IF ok THEN "True" ELSE cache_ret
             /\ trail' = IF ok THEN "saved" ELSE trail
             /\ saved_doc' = IF ok THEN doc ELSE saved_doc
    /\ UNCHANGED <<notcache, doc, clock, last_call, doc_before, file_before_save,
                   upserted>>

\* except (IOError, OSError): the cleanup of the temp file and `return False`
SaveExcept ==
    /\ cache_pc = "except"
    /\ \E ok \in BOOLEAN :
          LET d == CleanupTemp(Disk(cache_file, temp_file), ok)
          IN /\ cache_file' = d.file
             /\ temp_file' = d.tmp
             /\ trail' = IF ok THEN "save_failed" ELSE "save_failed_remove_failed"
    /\ cache_pc' = "idle"
    /\ cache_ret' = "False"
    /\ UNCHANGED <<notcache, doc, clock, last_call, doc_before, file_before_save,
                   saved_doc, upserted>>

NextCache ==
    \/ CacheLoad
    \/ \E k \in CacheKeys, st \in UpdateStatuses : CacheUpdate(k, st)
    \/ SaveBegin
    \/ SaveOpen
    \/ SaveDump
    \/ SaveReplace
    \/ SaveExcept

SpecCache == InitCache /\ [][NextCache]_vars

(***************************************************************************)
(* Vocabulary of the properties.                                           *)
(***************************************************************************)
Final == pc = "done"

ExpansionIds ==
    {Expansions(scenarios_to_run)[k].id : k \in 1..Len(Expansions(scenarios_to_run))}

\* Positions of the result list that hold a result for the execution id.
ResultsFor(id) ==
    {k \in 1..Len(scenario_results_list) : scenario_results_list[k].id = id}

\* Positions of the event log that hold the given call for the execution id.
EventsOf(kind, id) ==
    {k \in 1..Len(events) : events[k].kind = kind /\ events[k].id = id}

Records == 1..Len(execution_records)

\* A worker has entered _run_scenario for record i.
Attempted(i) == fstate[i] \in {"running", "spawned", "finished"}

\* Record i has a result that comes from an execution.
HasExecutedResult(i) ==
    \E k \in ResultsFor(execution_records[i].id) :
        scenario_results_list[k].status # "skipped"

HasSkippedResult(i) ==
    \E k \in ResultsFor(execution_records[i].id) :
        scenario_results_list[k].status = "skipped"

\* Every run that has returned so far came from a subprocess that exited
\* with a nonzero code and gave status failed.
EveryRunFails ==
    \A i \in Records :
        fstate[i] = "finished" =>
            proc[i].kind = "exit" /\ proc[i].code # 0 /\ fresult[i].status = "failed"

\* The index of the record with the given execution id.
RecordOf(id) == CHOOSE i \in Records : execution_records[i].id = id

(***************************************************************************)
(* C1: at the end of a run that got past selection, every execution id     *)
(* produced by parameter expansion has exactly one entry in the result     *)
(* list, and the list is as long as the number of expansions.              *)
(***************************************************************************)
C1_OneResultPerExpansion ==
    Final =>
        /\ Len(scenario_results_list) = Len(Expansions(scenarios_to_run))
        /\ \A id \in ExpansionIds : Cardinality(ResultsFor(id)) = 1

(***************************************************************************)
(* C2: with fail-fast, parallelism 1, two execution records and runs that  *)
(* all fail, one subprocess is spawned, the other record gets a skipped    *)
(* result, and the final result list has two entries.                      *)
(***************************************************************************)
C2_FailFastSkipsTheOther ==
    (/\ Final
     /\ fail_fast
     /\ parallel = 1
     /\ Len(execution_records) = 2
     /\ Len(Expansions(scenarios_to_run)) = 2
     /\ EveryRunFails)
    => /\ Cardinality(spawned) = 1
       /\ \E i \in Records : i \notin spawned /\ HasSkippedResult(i)
       /\ Len(scenario_results_list) = 2

(***************************************************************************)
(* C3: with maxfail = m > 0, no fail-fast, parallelism 1 and n > m records *)
(* that all fail, exactly m records are executed and each of the other     *)
(* n - m records gets a skipped result.                                    *)
(***************************************************************************)
C3_MaxfailSkipsTheRest ==
    (/\ Final
     /\ ~fail_fast
     /\ maxfail > 0
     /\ parallel = 1
     /\ Len(execution_records) > maxfail
     /\ EveryRunFails)
    => /\ Cardinality(spawned) = maxfail
       /\ \A i \in Records : i \notin spawned => HasSkippedResult(i)

(***************************************************************************)
(* C4: with fail-fast set, completions that do not count as failures do    *)
(* not trigger early termination, and the records still pending are        *)
(* dispatched and executed.                                                *)
(***************************************************************************)
C4_FailFastNeedsAFailure ==
    (fail_fast /\ failure_count = 0) =>
        /\ ~early_stop
        /\ (Final /\ parallel >= 1) => \A i \in Records : HasExecutedResult(i)

(***************************************************************************)
(* C5: in a final state a result is skipped if and only if the record was  *)
(* never executed: a skipped result belongs to no record whose subprocess  *)
(* was started, and a result that is not skipped belongs to a record a     *)
(* worker has run.                                                         *)
(***************************************************************************)
C5_SkippedIffNeverStarted ==
    Final =>
        \A k \in 1..Len(scenario_results_list) :
            LET r == scenario_results_list[k]
            IN /\ r.status = "skipped" =>
                    ~\E i \in spawned : execution_records[i].id = r.id
               /\ r.status # "skipped" =>
                    \E i \in Records : execution_records[i].id = r.id /\ Attempted(i)

(***************************************************************************)
(* C6: the executor's (status, reported return code) follows the table:    *)
(* (0, not xfail) -> (passed, 0); (c # 0, not xfail) -> (failed, c);       *)
(* (c # 0, xfail) -> (xfailed, 0); (0, xfail) -> (xpassed, 0); and a       *)
(* result with status xfailed or xpassed belongs to an is_xfail record.    *)
(***************************************************************************)
StatusTable(c, is_xfail) ==
    IF c = 0
    THEN IF is_xfail THEN <<"xpassed", 0>> ELSE <<"passed", 0>>
    ELSE IF is_xfail THEN <<"xfailed", 0>> ELSE <<"failed", c>>

C6_StatusMapping ==
    /\ \A i \in Records :
          (fstate[i] = "finished" /\ proc[i].kind = "exit") =>
              <<fresult[i].status, fresult[i].return_code>>
                  = StatusTable(proc[i].code, execution_records[i].is_xfail)
    /\ \A k \in 1..Len(scenario_results_list) :
          scenario_results_list[k].status \in {"xfailed", "xpassed"} =>
              /\ \E i \in Records :
                    execution_records[i].id = scenario_results_list[k].id
              /\ execution_records[RecordOf(scenario_results_list[k].id)].is_xfail
              /\ scenario_results_list[k].return_code = 0

C6_Witness ==
    /\ \E k \in 1..Len(scenario_results_list) :
          scenario_results_list[k].status = "xfailed"
    /\ \E i \in Records :
          fstate[i] = "finished" /\ proc[i] = ExitOutcome(7)
          /\ ~execution_records[i].is_xfail

(***************************************************************************)
(* C7: in every reachable state the number of in-flight records is at most *)
(* max(1, parallel).                                                       *)
(***************************************************************************)
C7_InFlightBounded == Cardinality(futures) <= Max(1, parallel)

C7_Witness ==
    /\ parallel = MaxParallel
    /\ Cardinality(futures) = MaxParallel
    /\ record_iter <= Len(execution_records)

(***************************************************************************)
(* C8: for every parallelism value p, including p <= 0, when early         *)
(* termination never triggers every execution record is dispatched and     *)
(* gets an executed result.                                                *)
(***************************************************************************)
C8_EveryRecordExecuted ==
    (Final /\ ~early_stop) => \A i \in Records : HasExecutedResult(i)

(***************************************************************************)
(* C9: records are dispatched in the order of the execution-record list:   *)
(* the before_scenario calls and the submissions appear in the event log   *)
(* in increasing record order.                                             *)
(***************************************************************************)
IsDispatchEvent(e) == e.kind \in {"before_scenario", "submit"}

\* The before_scenario and submit calls made so far, in order.
DispatchLog == SelectSeq(events, IsDispatchEvent)

C9_DispatchInOrder ==
    \A k \in 1..(Len(DispatchLog) - 1) :
        IF DispatchLog[k].id = DispatchLog[k + 1].id
        THEN DispatchLog[k].kind = "before_scenario" /\ DispatchLog[k + 1].kind = "submit"
        ELSE RecordOf(DispatchLog[k].id) < RecordOf(DispatchLog[k + 1].id)

\* Three records on two slots; the second record's completion is handled
\* first, and the third record is dispatched into its slot.
C9_Witness ==
    /\ Len(execution_records) = 3
    /\ parallel = 2
    /\ Len(scenario_results_list) >= 1
    /\ scenario_results_list[1].id = execution_records[2].id
    /\ EventsOf("submit", execution_records[3].id) # {}

(***************************************************************************)
(* C10: every dispatched record has exactly one before_scenario call,      *)
(* which precedes its submission, and exactly one after_scenario call,     *)
(* which follows its completion or cancellation; no after_scenario of a    *)
(* record precedes its before_scenario.                                    *)
(***************************************************************************)
\* The calls about record i made so far, in order, and their kinds.
EventsAbout(i) ==
    LET About(e) == e.id = execution_records[i].id
    IN SelectSeq(events, About)

KindsOf(evs) == [k \in 1..Len(evs) |-> evs[k].kind]

Exited == pc = "exited"

PositionsOf(kind) == {k \in 1..Len(events) : events[k].kind = kind}

\* The hook and dispatch calls made for single records.
ScenarioKinds == {"before_scenario", "submit", "cancel", "after_scenario"}

\* The run got as far as a ctx.exit with a code computed from the results:
\* the normal completion (0 or 1) or the nothing-to-run exit (0).
CompletionExits == {k \in PositionsOf("ctx.exit") : events[k].status \in {"0", "1"}}

\* C11: before_run is called exactly once and before every other call;
\* after_run is called at most once, never followed by a before_scenario,
\* dispatch or after_scenario, and exactly once, as the call just before
\* ctx.exit, on the normal completion path (with the whole result list) and
\* on the nothing-to-run path (with the empty list).
C11_RunHooksOnce ==
    /\ pc = "start" => events = <<>>
    /\ pc # "start" => /\ Cardinality(PositionsOf("before_run")) = 1
                       /\ events[1].kind = "before_run"
    /\ Cardinality(PositionsOf("after_run")) <= 1
    /\ \A k \in PositionsOf("after_run") :
          \A j \in (k + 1)..Len(events) : events[j].kind \notin ScenarioKinds
    /\ \A k \in CompletionExits :
          /\ k > 1
          /\ events[k - 1].kind = "after_run"
          /\ after_run_arg = <<IF scenarios_to_run = <<>>
                               THEN <<>> ELSE scenario_results_list>>

\* A run of two records that went through to its exit: after_run was called
\* with both results after both after_scenario calls.
C11_Witness ==
    /\ Exited
    /\ CompletionExits # {}
    /\ Cardinality(PositionsOf("after_scenario")) = 2
    /\ after_run_arg = <<scenario_results_list>>
    /\ Len(scenario_results_list) = 2

\* C13: an exception while spawning the subprocess or reading its output
\* becomes a result with status failed for that record; and when neither
\* fail-fast nor maxfail is set, a finished run in which that happened has
\* dispatched every record and has an executed result for each.
C13_ErrorsIsolated ==
    /\ \A i \in Records :
          proc[i].kind = "error" =>
             /\ fstate[i] = "finished"
             /\ fresult[i].id = execution_records[i].id
             /\ fresult[i].status = "failed"
    /\ (Final /\ ~fail_fast /\ maxfail = 0
          /\ \E i \in Records : proc[i].kind = "error") =>
          \A j \in Records :
             /\ EventsOf("submit", execution_records[j].id) # {}
             /\ HasExecutedResult(j)

\* A finished run of three records without fail-fast and maxfail in which
\* the first record's spawn raised and the two others ran to an exit code.
C13_Witness ==
    /\ Final /\ ~fail_fast /\ maxfail = 0
    /\ Len(execution_records) = 3
    /\ proc[1].kind = "error"
    /\ proc[2].kind = "exit" /\ proc[3].kind = "exit"
    /\ \A j \in Records : HasExecutedResult(j)

\* A record whose executable was not found has been handled and the run got
\* to the ctx.exit that carries final_exit_code.
NotFoundHandled ==
    \E i \in Records : proc[i].kind = "notfound" /\ HasExecutedResult(i)

\* C14: a record whose executable is not found gets a result with status
\* failed, an error message, no duration and a nonzero return code, which
\* counts as a failure; and a run that handled such a record and completed
\* exits with code 1.
C14_NotFoundFailsTheRun ==
    /\ \A i \in Records :
          proc[i].kind = "notfound" =>
             /\ fresult[i].status = "failed"
             /\ fresult[i].error_message
             /\ fresult[i].duration = "None"
             /\ fresult[i].return_code # 0
             /\ CountsAsFailure(fresult[i])
    /\ (Exited /\ CompletionExits # {} /\ NotFoundHandled) => exit_code = 1

\* C15: a run that has loaded the cache and has exited has called
\* save_cache exactly once.
C15_SavedExactlyOnce ==
    (Exited /\ PositionsOf("load_cache") # {}) =>
        Cardinality(PositionsOf("save_cache")) = 1

\* C16: every result of the result list, whatever its status, has its
\* execution id mapped to that status in the in-memory cache document.
C16_CacheFollowsResults ==
    \A k \in 1..Len(scenario_results_list) :
        /\ scenario_results_list[k].id \in DOMAIN cache_data
        /\ cache_data[scenario_results_list[k].id] = scenario_results_list[k].status

(***************************************************************************)
(* call_hooks.                                                             *)
(***************************************************************************)
\* The plugins whose hook is callable, in loading order.
PluginsWithHook ==
    SelectSeq([i \in 1..Len(_loaded_plugins) |-> i],
              LAMBDA i : _loaded_plugins[i] # "missing")

\* C12: a hook that raises never makes call_hooks raise; when call_hooks has
\* returned, the hook of every plugin that has one was called, in loading
\* order, the ones after a raising hook included, and call_hooks returns
\* the same way as when no hook raises.
C12_HookErrorsContained ==
    /\ hook_pc # "raised"
    /\ hook_pc = "returned" =>
          /\ hook_calls = PluginsWithHook
          /\ hook_idx = Len(_loaded_plugins) + 1

\* call_hooks returned although the first of three hooks raised, and the
\* two hooks after it were called.
C12_Witness ==
    /\ hook_pc = "returned"
    /\ Len(_loaded_plugins) = 3
    /\ _loaded_plugins[1] = "raises"
    /\ hook_warnings = <<1>>
    /\ hook_calls = <<1, 2, 3>>

(***************************************************************************)
(* cache.py.                                                               *)
(***************************************************************************)
\* The scenarios mapping of a document; a document without one has none.
MappingOf(cache) ==
    IF cache.scenarios_kind = "dict" THEN cache.scenarios ELSE EmptyScenarios

\* C17: after update(doc, id, status) with a status outside {passed,
\* failed} the document is what it was: an existing entry keeps its status
\* and a missing one stays missing; with a status of that set the mapping
\* has the entry id -> status and every other entry as before, no more.
C17_UpdateFrame ==
    last_call.op = "update" =>
        IF last_call.status \notin {"passed", "failed"}
        THEN doc = doc_before
        ELSE /\ doc.scenarios_kind = "dict"
             /\ DOMAIN doc.scenarios = (DOMAIN MappingOf(doc_before)) \cup {last_call.key}
             /\ doc.scenarios[last_call.key] = last_call.status
             /\ \A k \in DOMAIN MappingOf(doc_before) :
                   k # last_call.key => doc.scenarios[k] = doc_before.scenarios[k]
             /\ doc.moltest_version = doc_before.moltest_version
             /\ doc.last_run = doc_before.last_run

\* update with the rejected status skipped on an id whose entry says failed,
\* next to another entry: both entries are as before.
C17_Witness ==
    /\ last_call = Call("update", <<"role1:alpha">>, "skipped")
    /\ doc_before.scenarios_kind = "dict"
    /\ DOMAIN doc_before.scenarios = CacheKeys
    /\ doc.scenarios[<<"role1:alpha">>] = "failed"

\* C18: after updates, a save that returned True and a load, the loaded
\* scenarios mapping is the saved one, every id upserted with an accepted
\* status maps to the last such status, and the failed ids are the same.
C18_RoundTrip ==
    trail = "saved_loaded" =>
        /\ cache_ret = "returned"
        /\ MappingOf(doc) = MappingOf(saved_doc)
        /\ get_failed_scenarios(MappingOf(doc)) = get_failed_scenarios(MappingOf(saved_doc))
        /\ \A k \in DOMAIN upserted :
              k \in DOMAIN MappingOf(doc) /\ doc.scenarios[k] = upserted[k]

\* Two updates, a successful save and a load: both ids come back, one of
\* them failed.
C18_Witness ==
    /\ trail = "saved_loaded"
    /\ DOMAIN upserted = CacheKeys
    /\ get_failed_scenarios(MappingOf(doc)) = {<<"role1:alpha", "[", "set1", "]">>}

\* C19: load_cache on a cache file that is absent, unreadable, not JSON
\* text, not an object, without a scenarios mapping or of another version
\* returns the empty document of the current version and does not raise.
C19_LoadNeverRaises ==
    (last_call.op = "load" /\ cache_file \in BadCacheFiles) =>
        /\ cache_ret = "returned"
        /\ doc.moltest_version = CACHE_VERSION
        /\ doc.scenarios_kind = "dict"
        /\ doc.scenarios = EmptyScenarios

\* The target file during and after save_cache: the content it had when
\* save_cache was entered, or the whole text of the document.
TargetIntact ==
    last_call.op = "save" =>
        cache_file \in {file_before_save, TextFile(json_dump(doc))}

\* C20, as claimed: a save that failed returns False, leaves the cache file
\* as it was and leaves no temp file; the target file is never partial.
C20_FailedSaveLeavesNoTemp ==
    /\ TargetIntact
    /\ (last_call.op = "save" /\ cache_ret = "False") =>
          /\ cache_file = file_before_save
          /\ temp_file = AbsentFile

\* C20, amended: a save that failed returns False and leaves the cache file
\* as it was; the temp file is gone when os.remove worked, and stays when
\* os.remove failed as well; the target file is never partial.
C20_FailedSaveKeepsTarget ==
    /\ TargetIntact
    /\ (last_call.op = "save" /\ cache_pc = "idle") => cache_ret \in {"True", "False"}
    /\ (last_call.op = "save" /\ cache_ret = "False") =>
          /\ cache_file = file_before_save
          /\ trail = "save_failed" => temp_file = AbsentFile

\* A save over an existing valid cache file whose os.replace failed (the
\* temp file was complete) has returned False: the file is the old one and
\* the temp file was removed.
C20_Witness ==
    /\ last_call.op = "save" /\ cache_ret = "False" /\ trail = "save_failed"
    /\ file_before_save = TextFile(json_dump(StoredDocument))
    /\ cache_file = file_before_save
    /\ cache_file # TextFile(json_dump(doc))
    /\ temp_file = AbsentFile

(***************************************************************************)
(* Selection, expansion and exit codes.                                    *)
(***************************************************************************)
\* The first run left the cache file save_cache writes for its results.
PreviousRunSaved ==
    /\ previous_run.ran
    /\ previous_run.cache_file =
          TextFile(json_dump(CacheDocument(
              UpdateAll(EmptyScenarios, previous_run.results), clock)))

\* The execution ids whose result in the first run was failed.
PreviousFailedIds ==
    {previous_run.results[k].id : k \in
        {j \in 1..Len(previous_run.results) : previous_run.results[j].status = "failed"}}

\* The run is in, or past, the expansion loop.
PastSelection ==
    pc \in {"expand", "fill", "while", "for", "shutdown", "save", "done"}

\* C21: when the first run saved its cache, the run with --rerun-failed
\* that follows it does not take the nothing-to-run exit while a result of
\* the first run was failed; once past selection its expansions include
\* every execution id that failed, bare or of the form base[param_id], and
\* at its end each of them has an executed result.
C21_FailedRecordsRunAgain ==
    (PreviousRunSaved /\ PreviousFailedIds # {}) =>
        /\ after_run_arg # << <<>> >>
        /\ PastSelection => PreviousFailedIds \subseteq ExpansionIds
        /\ Final => \A id \in PreviousFailedIds :
                        /\ \E i \in Records : execution_records[i].id = id
                        /\ HasExecutedResult(RecordOf(id))

\* The step of the run that made the selection with --rerun-failed set, a
\* cache without a failed id and a base selection that is not an error.
RerunWithNothingFailed ==
    /\ pc = "discover"
    /\ rerun_failed
    /\ get_failed_scenarios(cache_data) = {}
    /\ TargetScenarios(all_discovered_scenarios, scenario) # <<>>
    /\ ~(pc' = "except" /\ events' = events)

\* C22: with --rerun-failed and a cache without a failed id the selection
\* produces no execution record, spawns nothing and calls no
\* before_scenario or after_scenario, the cache is saved, and the run
\* exits with code 0.
C22_NothingFailedNothingRun ==
    [][ /\ RerunWithNothingFailed =>
              /\ pc' # "expand"
              /\ scenarios_to_run' = <<>>
              /\ execution_records' = <<>>
              /\ spawned' = {}
              /\ \A k \in 1..Len(events') : events'[k].kind \notin ScenarioKinds
              /\ \E k \in 1..Len(events') : events'[k].kind = "save_cache"
              /\ pc' = "exited" => exit_code' = 0
        /\ (rerun_failed /\ after_run_arg = << <<>> >> /\ pc # "exited"
              /\ pc' = "exited") => exit_code' = 0
      ]_vars

\* The execution ids the claim gives a descriptor, with the descriptor's
\* tags: base[p1]..base[pk] for declared parameter sets p1..pk, the bare id
\* when none is declared.
ClaimedIdsOf(s_data) ==
    IF s_data.has_parameters /\ s_data.parameters # <<>>
    THEN [j \in 1..Len(s_data.parameters) |->
             [id |-> <<s_data.id, "[", s_data.parameters[j].id, "]">>,
              tags |-> s_data.tags]]
    ELSE <<[id |-> <<s_data.id>>, tags |-> s_data.tags]>>

RECURSIVE ClaimedIds(_)
ClaimedIds(descs) ==
    IF descs = <<>> THEN <<>>
    ELSE ClaimedIdsOf(Head(descs)) \o ClaimedIds(Tail(descs))

IdsOf(seq) == [k \in 1..Len(seq) |-> seq[k].id]

\* C23: the expansion loop yields, in declaration order, the ids
\* base[p1]..base[pk] for a descriptor with declared parameter sets and the
\* bare scenario id for a descriptor without, whether its parameters field
\* is missing or the empty list: the records carry the ids whose tags are
\* not skipped and the results appended by the loop the others.
C23_ExpansionIds ==
    LET claimed == ClaimedIds(scenarios_to_run)
        TagSkipped(e) == (e.tags \cap skip_tags_set) # {}
        Dispatched(e) == ~TagSkipped(e)
    IN /\ pc \in {"fill", "while", "for", "shutdown", "save", "done"} =>
             IdsOf(execution_records) = IdsOf(SelectSeq(claimed, Dispatched))
       /\ pc = "fill" =>
             IdsOf(scenario_results_list) = IdsOf(SelectSeq(claimed, TagSkipped))

\* C24: an expansion whose tags meet the skip tags, with or without an
\* xfail tag among them, is never made an execution record, has no
\* before_scenario call and no submission, and once the expansion loop is
\* over has exactly one result, with status skipped and return code 0.
C24_TagSkippedNeverDispatched ==
    \A k \in 1..Len(Expansions(scenarios_to_run)) :
        LET e == Expansions(scenarios_to_run)[k]
        IN (e.tags \cap skip_tags_set) # {} =>
              /\ \A i \in Records : execution_records[i].id # e.id
              /\ EventsOf("before_scenario", e.id) = {}
              /\ EventsOf("submit", e.id) = {}
              /\ pc \in {"fill", "while", "for", "shutdown", "save", "done"} =>
                    /\ Cardinality(ResultsFor(e.id)) = 1
                    /\ \A j \in ResultsFor(e.id) :
                          /\ scenario_results_list[j].status = "skipped"
                          /\ scenario_results_list[j].return_code = 0

\* A finished run with --skip slow --xfail flaky over a scenario tagged
\* slow and flaky and another scenario that was executed.
C24_Witness ==
    /\ Final
    /\ spawned # {}
    /\ \E k \in 1..Len(Expansions(scenarios_to_run)) :
          LET e == Expansions(scenarios_to_run)[k]
          IN /\ (e.tags \cap skip_tags_set) # {}
             /\ (e.tags \cap xfail_tags_set) # {}
             /\ Cardinality(ResultsFor(e.id)) = 1

\* C25: with the selection spec 'all' the base set is the discovered list,
\* the same descriptors in the same order: a run without --rerun-failed
\* that got past selection expands exactly that list.
C25_AllSelectsEverything ==
    (scenario.all /\ ~rerun_failed /\ PastSelection) =>
        scenarios_to_run = all_discovered_scenarios

\* Both discovered descriptors are about to be expanded.
C25_Witness ==
    /\ pc = "expand"
    /\ scenario.all /\ ~rerun_failed
    /\ Len(all_discovered_scenarios) = 2
    /\ IdsOf(scenarios_to_run) = <<"role1:alpha", "role2:beta">>

DiscoveredIds == {all_discovered_scenarios[k].id : k \in 1..Len(all_discovered_scenarios)}

\* The position of a descriptor in the discovered list.
DiscoveryIndex(s) ==
    CHOOSE k \in 1..Len(all_discovered_scenarios) : all_discovered_scenarios[k] = s

\* C26: with explicit ids of which at least one is discovered, the run
\* never signals the selection error, and the base set (what a run without
\* --rerun-failed expands) holds the discovered descriptors whose id is
\* requested, each once, in discovery order, and nothing else.
C26_ExplicitIdsIntersect ==
    (~scenario.all /\ (scenario.requested_ids \cap DiscoveredIds) # {}) =>
        /\ \A k \in PositionsOf("ctx.exit") : events[k].status # "2"
        /\ (~rerun_failed /\ PastSelection) =>
              /\ \A k \in 1..Len(all_discovered_scenarios) :
                    all_discovered_scenarios[k].id \in scenario.requested_ids =>
                        \E j \in 1..Len(scenarios_to_run) :
                            scenarios_to_run[j] = all_discovered_scenarios[k]
              /\ \A j \in 1..Len(scenarios_to_run) :
                    /\ scenarios_to_run[j].id \in scenario.requested_ids
                    /\ \E k \in 1..Len(all_discovered_scenarios) :
                          scenarios_to_run[j] = all_discovered_scenarios[k]
              /\ \A i, j \in 1..Len(scenarios_to_run) :
                    i < j => DiscoveryIndex(scenarios_to_run[i])
                                < DiscoveryIndex(scenarios_to_run[j])

\* Three ids are requested, two of them discovered: both are about to be
\* expanded, in discovery order, and the third id raised no error.
C26_Witness ==
    /\ pc = "expand"
    /\ ~rerun_failed
    /\ scenario = Requested({"role1:alpha", "role2:beta", "role9:none"})
    /\ IdsOf(scenarios_to_run) = <<"role1:alpha", "role2:beta">>

(***************************************************************************)
(* The -k expression as the claims read it.                                *)
(***************************************************************************)
\* The word occurs in the scenario id: the id is some text, the word, and
\* some text.
IsSubstring(word, scenario_id) ==
    LET k == CHOOSE i \in 1..Len(ScenarioIdNames) : ScenarioIdNames[i] = scenario_id
        text == ScenarioIdPieces[k]
    IN \E i, j \in 0..Len(text) :
          i <= j /\ [n \in 1..(j - i) |-> text[i + n]] = word

RECURSIVE Reading(_, _, _)
\* The reading of a prefix of an expression at the level "or", "and",
\* "not" or "word": wf says that the prefix is well formed, val is its
\* boolean value for the scenario id, rest is what follows it.
Reading(level, lexemes, scenario_id) ==
    LET IllFormed == [wf |-> FALSE, val |-> FALSE, rest |-> <<>>]
    IN IF level = "or"
       THEN LET l == Reading("and", lexemes, scenario_id)
            IN IF l.wf /\ l.rest # <<>> /\ Head(l.rest).t = "or"
               THEN LET r == Reading("or", Tail(l.rest), scenario_id)
                    IN [r EXCEPT !.val = l.val \/ r.val]
               ELSE l
       ELSE IF level = "and"
       THEN LET l == Reading("not", lexemes, scenario_id)
            IN IF l.wf /\ l.rest # <<>> /\ Head(l.rest).t = "and"
               THEN LET r == Reading("and", Tail(l.rest), scenario_id)
                    IN [r EXCEPT !.val = l.val /\ r.val]
               ELSE l
       ELSE IF level = "not"
       THEN IF lexemes # <<>> /\ Head(lexemes).t = "not"
            THEN LET r == Reading("not", Tail(lexemes), scenario_id)
                 IN [r EXCEPT !.val = ~r.val]
            ELSE Reading("word", lexemes, scenario_id)
       ELSE IF lexemes = <<>> THEN IllFormed
       ELSE IF Head(lexemes).t = "word"
       THEN [wf |-> TRUE, val |-> IsSubstring(Head(lexemes).v, scenario_id),
             rest |-> Tail(lexemes)]
       ELSE IF Head(lexemes).t = "("
       THEN LET e == Reading("or", Tail(lexemes), scenario_id)
            IN IF e.wf /\ e.rest # <<>> /\ Head(e.rest).t = ")"
               THEN [e EXCEPT !.rest = Tail(e.rest)]
               ELSE IllFormed
       ELSE IllFormed

\* The expression is well formed: it reads as a whole.
WellFormed(expression) ==
    LET r == Reading("or", expression.lexemes, "role1:alpha")
    IN r.wf /\ r.rest = <<>>

\* The boolean value of a well-formed expression for the scenario id.
ValueOf(expression, scenario_id) ==
    Reading("or", expression.lexemes, scenario_id).val

\* The selection has been made.
Selected == pc # "discover"

\* C27: for a well-formed expression over and, or, not, parentheses and
\* bare words the selection keeps exactly the scenarios for whose id the
\* expression is true, a bare word being true when it is a substring of the
\* id, with not binding tighter than and, and and tighter than or.
C27_ExpressionValue ==
    (Selected /\ id_expr.given /\ WellFormed(id_expr)) =>
        scenarios_to_run =
            SelectSeq(all_discovered_scenarios, LAMBDA s : ValueOf(id_expr, s.id))

\* `-k "1: and not beta"` kept role1:alpha, whose id contains "1:" and not
\* "beta", and dropped role2:beta.
C27_Witness ==
    /\ pc = "expand"
    /\ id_expr = IdExpr(<<Tok("word", <<"1", ":">>), Tok("and", <<>>), Tok("not", <<>>),
                          Tok("word", <<"beta">>)>>)
    /\ IdsOf(scenarios_to_run) = <<"role1:alpha">>
    /\ Len(all_discovered_scenarios) >= 2

\* C28: for an expression that is not well formed (unbalanced parentheses,
\* a dangling operator, two adjacent bare words, or no token at all) the
\* matcher is false for every scenario id and nothing raises: the
\* selection keeps no scenario and the run takes the nothing-to-run exit.
C28_IllFormedMatchesNothing ==
    (Selected /\ id_expr.given /\ ~WellFormed(id_expr)) =>
        /\ scenarios_to_run = <<>>
        /\ pc # "expand"
        /\ after_run_arg = << <<>> >>

\* The run went through the reports to call_hooks("after_run", results)
\* and ctx.exit(final_exit_code).
NormalCompletion == scenarios_to_run # <<>> /\ after_run_arg = <<scenario_results_list>>

\* C29: a run that reached normal completion exits with code 1 when a
\* result has status failed or a nonzero return code, and with code 0
\* otherwise.
C29_ExitCodeFromResults ==
    (Exited /\ NormalCompletion) =>
        exit_code = IF \E k \in 1..Len(scenario_results_list) :
                          \/ scenario_results_list[k].status = "failed"
                          \/ scenario_results_list[k].return_code # 0
                    THEN 1 ELSE 0

\* C30: a selection error, that is no scenario discovered or explicit ids
\* of which none is discovered, ends the run with exit code 2, and nothing
\* is executed: no record, no spawn, no before_scenario or after_scenario.
SelectionError ==
    \/ all_discovered_scenarios = <<>>
    \/ ~scenario.all /\ (scenario.requested_ids \cap DiscoveredIds) = {}

\* The run has called ctx.exit(2).
SelectionErrorSignalled == \E k \in PositionsOf("ctx.exit") : events[k].status = "2"

C30_SelectionErrorExits2 ==
    /\ SelectionError =>
          /\ ~PastSelection
          /\ execution_records = <<>>
          /\ spawned = {}
          /\ \A k \in 1..Len(events) : events[k].kind \notin ScenarioKinds
    /\ SelectionErrorSignalled =>
          /\ SelectionError
          /\ Exited => exit_code = 2

\* The handler of the outer try block was entered, or has run.
HandlerEntered == pc = "except" \/ PositionsOf("ctx.exit") \cap
                                   {k \in 1..Len(events) : events[k].status = "3"} # {}

\* A ctx.exit call of the try block was made before the handler was entered:
\* what the handler caught is the exit, not an error.
ExitCaught ==
    HandlerEntered /\ \E k \in PositionsOf("ctx.exit") : events[k].status # "3"

\* discover_scenarios, the expansion loop or the reports raised an exception.
InternalErrorRaised == HandlerEntered /\ ~ExitCaught

\* C31: a run that has exited has exit code 3 if and only if the discovery,
\* the expansion or the reports raised an exception; and the handler's
\* ctx.exit(3) comes right after a save_cache call.
C31_Exit3IffInternalError ==
    /\ Exited => (exit_code = 3 <=> InternalErrorRaised)
    /\ \A k \in PositionsOf("ctx.exit") :
          events[k].status = "3" => k > 1 /\ events[k - 1].kind = "save_cache"

\* The cache file is there and cannot be opened for reading. A run leaves the
\* file as it found it until its first save_cache call.
CacheUnreadableAtStartup ==
    cache_file = UnreadableFile /\ PositionsOf("save_cache") = {}

\* C32: a run that finds a cache file it cannot read is, once past the cache
\* load, a run that has exited with code 5, without having discovered,
\* selected or dispatched anything.
C32_UnreadableCacheExits5 ==
    (CacheUnreadableAtStartup /\ pc \notin {"start", "load"}) =>
        /\ Exited
        /\ exit_code = 5
        /\ scenarios_to_run = <<>>
        /\ execution_records = <<>>
        /\ \A k \in 1..Len(events) : events[k].kind \notin ScenarioKinds

\* Early termination has triggered, the coordinator has left the completion
\* loop, and a worker is still inside _run_scenario for another record.
StoppedWhileRunning == pc = "shutdown" /\ early_stop /\ Busy # {}

\* C33: once early termination has triggered, the coordinator's step out of
\* the executor block towards the cache save can be taken whether or not a
\* subprocess of another record is still running.
C33_ShutdownDoesNotWait == StoppedWhileRunning => ENABLED Shutdown

\* The structures the claim is about.
Aggregates == <<scenario_results_list, failure_count, cache_data>>

\* A step of a worker thread: some future goes on to running, spawned or
\* finished, or a result value, an outcome or a subprocess appears.
WorkerStep ==
    \/ \E i \in DOMAIN fstate :
          /\ i \in DOMAIN fstate'
          /\ fstate'[i] # fstate[i]
          /\ fstate'[i] \in {"running", "spawned", "finished"}
    \/ (DOMAIN fresult' = DOMAIN fresult /\ fresult' # fresult)
    \/ (DOMAIN proc' = DOMAIN proc /\ proc' # proc)
    \/ spawned' # spawned

\* C34: the result list, the failure counter and the cache document change
\* only in the coordinator's expansion step and in its handling of a
\* completion; a step of a worker leaves all three as they are and changes
\* only the future's state, its result value and the subprocess bookkeeping.
C34_OnlyCoordinatorWrites ==
    [][ /\ Aggregates' # Aggregates =>
              /\ pc \in {"expand", "for"}
              /\ ~WorkerStep
        /\ WorkerStep =>
              /\ UNCHANGED Aggregates
              /\ UNCHANGED <<futures, record_iter, early_stop, snapshot, events, pc>>
      ]_vars

\* Two workers are at work at once, one has returned a result value that is
\* not in the result list yet while the other is inside _run_scenario, and
\* the coordinator has already recorded a result.
C34_Witness ==
    /\ scenario_results_list # <<>>
    /\ Busy # {}
    /\ \E i \in Records :
          /\ fstate[i] = "finished"
          /\ fresult[i] # NoResult
          /\ ResultsFor(execution_records[i].id) = {}

\* The completions processed so far that count as failures: the results
\* with status failed or a nonzero reported return code.
FailuresProcessed ==
    {k \in 1..Len(scenario_results_list) :
        \/ scenario_results_list[k].status = "failed"
        \/ scenario_results_list[k].return_code # 0}

\* C35: without fail-fast, early termination has triggered exactly when
\* maxfail > 0 and the number of processed completions that count as
\* failures has reached maxfail; the failure counter is that number, to
\* which passed, xfailed and xpassed completions do not contribute; and
\* with maxfail = 0 early termination never triggers.
C35_MaxfailThreshold ==
    ~fail_fast =>
        /\ early_stop <=> (maxfail > 0 /\ Cardinality(FailuresProcessed) >= maxfail)
        /\ failure_count = Cardinality(FailuresProcessed)
        /\ \A k \in FailuresProcessed :
              scenario_results_list[k].status \notin {"passed", "xfailed", "xpassed"}
        /\ maxfail = 0 => ~early_stop

\* maxfail = 2 without fail-fast: a completion that does not count was
\* processed first, then two failures, and the second one triggered.
C35_Witness ==
    /\ ~fail_fast /\ maxfail = 2 /\ early_stop
    /\ Len(scenario_results_list) = 3
    /\ scenario_results_list[1].status \in {"passed", "xfailed", "xpassed"}
    /\ failure_count = 2

\* C36: from the step that triggers early termination on, no before_scenario
\* call and no submission is made, and every result appended to the result
\* list after the result of the triggering completion is a skipped one,
\* whatever the workers still running do.
C36_NothingAfterTrigger ==
    [][ early_stop' =>
          LET first == IF early_stop THEN Len(scenario_results_list) + 1
                       ELSE Len(scenario_results_list) + 2
          IN /\ DispatchLog' = DispatchLog
             /\ Len(scenario_results_list') >= Len(scenario_results_list)
             /\ SubSeq(scenario_results_list', 1, Len(scenario_results_list))
                   = scenario_results_list
             /\ \A k \in first..Len(scenario_results_list') :
                   scenario_results_list'[k].status = "skipped"
      ]_vars

\* Three records on two slots: the first completion triggered early
\* termination while the second record's subprocess was running; that
\* worker has returned since, and the third record was never dispatched.
C36_Witness ==
    /\ early_stop
    /\ Len(execution_records) = 3
    /\ 2 \in spawned /\ fstate[2] = "finished"
    /\ HasSkippedResult(2) /\ ~HasExecutedResult(2)
    /\ EventsOf("before_scenario", execution_records[3].id) = {}
    /\ Len(scenario_results_list) = 2

\* The coordinator is in its completion loop: the initial submissions are
\* made and the executor block is not left yet.
InCompletionLoop == pc \in {"while", "for"}

\* Records the iterator has not yielded yet.
Pending == record_iter..Len(execution_records)

\* C37: in the completion loop, while records are pending and early
\* termination has not triggered, the number of in-flight records is the
\* slot count max(1, parallel), and the in-flight records are among those
\* dispatched so far, the next pending record being the one after them.
C37_PoolKeptFull ==
    (InCompletionLoop /\ Pending # {} /\ ~early_stop) =>
        /\ Cardinality(futures) = Max(1, parallel)
        /\ \A i \in futures : i < record_iter

\* The run is over: the cache save was attempted, nothing is in flight and
\* no record is left pending.
Terminal ==
    /\ PositionsOf("save_cache") # {}
    /\ futures = {}
    /\ Pending = {}

\* C38: under fair scheduling, with every spawned subprocess exiting, every
\* run reaches a state in which the cache save has been attempted and both
\* the in-flight map and the pending queue are empty, whatever parallel,
\* fail_fast and maxfail are.
C38_RunTerminates == <>Terminal

====
